---- MODULE Spec2Model ----
(***************************************************************************)
(* A model of the CineMorph App (src/App.tsx) and of its generation        *)
(* service (src/unnamed/part_001): the five-stage pipeline, the handlers   *)
(* handleFileUpload / handleAnalyze / handleGenerate / handleRefine, and   *)
(* the service functions generateFinalPoster / refinePoster /              *)
(* analyzeImageStructure.                                                  *)
(*                                                                         *)
(* One action is one run-to-completion block of JavaScript: a handler from *)
(* its trigger to its first await, or the continuation after an await up   *)
(* to the next one.  The suspension points (timers, file reads, backend    *)
(* calls, the key dialog) are the positions `pc` of the in-flight calls.   *)
(***************************************************************************)
EXTENDS Integers, Sequences, FiniteSets, TLC

(***************************************************************************)
(* Bounds of the model.                                                    *)
(***************************************************************************)
\* Files are 0..MaxFile; file 0 is a zero-byte file.
MaxFile == 1
\* Parts of a backend response's first candidate.
MaxParts == 2
\* Cap on concurrently running handleGenerate / handleRefine invocations.
MaxInFlight == 2
\* Cap on concurrently running handleAnalyze invocations.
MaxAnalyses == 1
\* Files of a direct call of generateFinalPoster are 0..MaxPosterFile.
MaxPosterFile == 2
\* Cap on concurrently running handleAnalyze invocations in SpecAnalyze.
MaxRacing == 2
\* Cap on the re-runs of the device/position effect after one user event.
MaxSyncRuns == 3
\* Cap on the user messages ChatAssistant accepts.
MaxExchanges == 2

(***************************************************************************)
(* Values.                                                                 *)
(***************************************************************************)
\* null / undefined of a string-valued slot.
Null == "<null>"
\* null of a File-valued slot.
NoFile == -1
Files == 0..MaxFile

\* JavaScript truthiness of a string-valued slot.
Truthy(s) == s # Null /\ s # ""

(***************************************************************************)
(* String helpers (String.prototype.includes / trim / split).              *)
(***************************************************************************)
Includes(s, sub) ==
    \E i \in 1..(Len(s) - Len(sub) + 1) : SubSeq(s, i, i + Len(sub) - 1) = sub

RECURSIVE TrimStart(_)
TrimStart(s) ==
    IF Len(s) > 0 /\ SubSeq(s, 1, 1) = " " THEN TrimStart(SubSeq(s, 2, Len(s))) ELSE s

RECURSIVE TrimEnd(_)
TrimEnd(s) ==
    IF Len(s) > 0 /\ SubSeq(s, Len(s), Len(s)) = " "
    THEN TrimEnd(SubSeq(s, 1, Len(s) - 1)) ELSE s

Trim(s) == TrimEnd(TrimStart(s))

\* Positions of the commas of s.
Commas(s) == {i \in 1..Len(s) : SubSeq(s, i, i) = ","}

\* Mutant: the last match instead of the first.
Max(S) == CHOOSE m \in S : \A n \in S : m >= n

\* The first match of a loop or of find.
Min(S) == CHOOSE m \in S : \A n \in S : m <= n

\* s.split(',')[1]: the text between the first comma and the next one (or
\* the end); undefined when s holds no comma.
SplitComma1(s) ==
    IF Commas(s) = {} THEN Null
    ELSE LET first == Min(Commas(s))
             rest  == {i \in Commas(s) : i > first}
             stop  == IF rest = {} THEN Len(s) + 1 ELSE Min(rest)
         IN SubSeq(s, first + 1, stop - 1)

(***************************************************************************)
(* Files and fileToBase64.                                                 *)
(***************************************************************************)
MimeType(f) == "image/png"

\* The base64 text of the bytes of file f; file 0 has no bytes.
Base64Of(f) == IF f = 0 THEN "" ELSE "aW1n" \o ToString(f)

\* FileReader.readAsDataURL.
DataURL(f) == "data:" \o MimeType(f) \o ";base64," \o Base64Of(f)

fileToBase64(f) == SplitComma1(DataURL(f))

(***************************************************************************)
(* Messages of the service and of the App.                                 *)
(***************************************************************************)
MissingKeyMsg == "API Key not found. Please select an API Key."
InvalidInputMsg ==
    "Invalid Input Combination. Please provide at least an Actor, a Reference, or a Prompt."
NoImageMsg == "No image data returned."
RefusalPrefix == "Model Refusal: "
GenerateFallbackMsg == "Failed to generate poster."
RefineNoImageMsgScenario == "Refinement failed."
RefineNoImageMsgSwap == "Refinement failed to produce an image."
RefineFallbackMsg == "Failed to refine image."
UnknownErrorMsg == "Unknown error"
\* Mutant: the catch of handleGenerate looks for a misspelt message.
EntityNotFoundMisspelt == "Requested entity not found"
EntityNotFound == "Requested entity was not found"
GenericFailureMsg == "Generation failed: Check console for details"
KeyRefreshedMsg == "API Key refreshed. Please click Generate again."
AnalysisUnavailable == "Analysis unavailable."
AnalysisNoText == "Analysis failed to produce text."
DataUriPrefix == "data:image/png;base64,"
\* Longest error message shown verbatim in stage 5.
DisplayLimit == 50

(***************************************************************************)
(* The backend's answers (inputs of the model).                            *)
(***************************************************************************)
\* Two texts of the backend: with the refusal prefix the first is exactly as
\* long as the longest message stage 5 shows, the second one character more.
ShortText == "This request violates the policies."
LongText == "This request violates some policies."
ImageData == {"iVBORw0A", "iVBORw0B"}
BackendTexts == {ShortText, LongText}

\* A part of a candidate: data = "" for no inlineData, text = "" for no text.
PartValues ==
    {[data |-> d, text |-> ""] : d \in ImageData \cup {""}}
    \cup {[data |-> "", text |-> t] : t \in BackendTexts}
    \cup {[data |-> "iVBORw0B", text |-> ShortText]}

PartLists == UNION {[1..n -> PartValues] : n \in 0..MaxParts}

\* response.candidates: none, one without content.parts, or one with parts.
CandidateLists ==
    {<<>>} \cup {<<[hasParts |-> FALSE, parts |-> <<>>]>>}
    \cup {<<[hasParts |-> TRUE, parts |-> p]>> : p \in PartLists}

TransportErrors == {"Requested entity was not found.", ""}

\* What ai.models.generateContent does: it resolves with a response or
\* rejects with an error carrying a message.
Responses ==
    {[rejected |-> TRUE, message |-> m, candidates |-> <<>>] : m \in TransportErrors}
    \cup {[rejected |-> FALSE, message |-> "", candidates |-> c] : c \in CandidateLists}

(***************************************************************************)
(* The generation service (services/geminiService).  The repository holds  *)
(* two builds of it: "scenario", whose generateFinalPoster takes optional  *)
(* files and a creative prompt and selects one of four scenarios, and      *)
(* "swap", whose generateFinalPoster always takes both files.              *)
(***************************************************************************)
Builds == {"scenario", "swap"}

\* process.env.API_KEY: undefined, or a key.
Keys == {"AIzaSyKey"}
EnvKeys == {Null} \cup Keys

\* Mutant: the key is not checked.
getAiClientUnchecked(apiKey) == TRUE

\* getAiClient: TRUE when a client is returned, FALSE when it throws
\* MissingKeyMsg.
getAiClient(apiKey) == Truthy(apiKey)

\* A fulfilled / rejected promise of a string.
Ok(v) == [ok |-> TRUE, value |-> v]
Err(m) == [ok |-> FALSE, value |-> m]
Pending == [ok |-> FALSE, value |-> Null]

\* The scenario chain of generateFinalPoster ("scenario" build).  The
\* arguments are the files, their base64 encodings and the creative prompt.
SelectScenario(actorFile, actorBase64, referenceFile, referenceBase64, creativePrompt) ==
    IF actorFile # NoFile /\ Truthy(actorBase64)
       /\ referenceFile # NoFile /\ Truthy(referenceBase64)
    THEN "IdentityTransfer"
    ELSE IF actorFile # NoFile /\ Truthy(actorBase64) /\ referenceFile = NoFile
    THEN "GenerativePlacement"
    ELSE IF actorFile = NoFile /\ referenceFile # NoFile /\ Truthy(referenceBase64)
    THEN "GuidedReimagination"
    ELSE IF actorFile = NoFile /\ referenceFile = NoFile /\ Truthy(creativePrompt)
    THEN "PureSynthesis"
    ELSE "Invalid"

(***************************************************************************)
(* The request generateFinalPoster composes.  A template literal is the    *)
(* sequence of its lines (the indentation left out); a line that is one    *)
(* interpolation holds the interpolated text, "" when it is empty.         *)
(***************************************************************************)
\* enum OutputType, and a value that is none of them.
OutputTypes == {"ad_feed", "ad_stories", "landing_hero", "landing_mobile", "thumbnail"}
OtherOutputType == "banner"

\* enum LandingPosition, and a value that is none of them.
LandingPositions == {"left", "center", "right", "top", "bottom"}
OtherLandingPosition == "middle"

\* Mutant: the output type is ignored.
FormatOfSquare(bld, outputType, landingPosition) ==
    [aspectRatio |-> "1:1", instruction |-> "FORMAT: SQUARE AD (1:1)."]

\* "2. Prepare Format Instructions": aspectRatio and formatInstruction
\* (promptPrefix in the "swap" build).
FormatOf(bld, outputType, landingPosition) ==
    IF outputType = "ad_stories"
    THEN [aspectRatio |-> "9:16",
          instruction |->
              IF bld = "scenario"
              THEN "FORMAT: SOCIAL MEDIA STORY (9:16). Vertical Composition."
              ELSE "FORMAT: SOCIAL MEDIA STORY (9:16). Extend background vertically if needed."]
    ELSE IF outputType = "thumbnail"
    THEN [aspectRatio |-> "16:9",
          instruction |->
              IF bld = "scenario"
              THEN "FORMAT: YOUTUBE THUMBNAIL (16:9). High Contrast, Rule of Thirds."
              ELSE "FORMAT: YOUTUBE THUMBNAIL (16:9).\n"
                   \o "- COMPOSITION: High Contrast, Subject Pop, Rule of Thirds.\n"
                   \o "- LIGHTING: Emphasize Rim Light for separation."]
    ELSE IF outputType = "landing_hero"
    THEN [aspectRatio |-> "16:9",
          instruction |->
              "FORMAT: CINEMATIC WEB HEADER (16:9)."
              \o (IF landingPosition = "left"
                  THEN IF bld = "scenario"
                       THEN " LAYOUT: Subject Anchored LEFT. Right side: Negative space."
                       ELSE " LAYOUT: Subject Anchored LEFT. Right side: Uncluttered environment extension (bokeh/blur) for text."
                  ELSE IF landingPosition = "right"
                  THEN IF bld = "scenario"
                       THEN " LAYOUT: Subject Anchored RIGHT. Left side: Negative space."
                       ELSE " LAYOUT: Subject Anchored RIGHT. Left side: Uncluttered environment extension (bokeh/blur) for text."
                  ELSE IF bld = "scenario"
                       THEN " LAYOUT: Center Composition."
                       ELSE " LAYOUT: Center Composition. Balanced negative space on sides.")]
    ELSE IF outputType = "landing_mobile"
    THEN [aspectRatio |-> "9:16",
          instruction |->
              "FORMAT: MOBILE LANDING PAGE (Vertical 9:16)."
              \o (IF landingPosition = "top"
                  THEN IF bld = "scenario"
                       THEN " LAYOUT: Subject in TOP half. Clean negative space at BOTTOM."
                       ELSE "\nLAYOUT: Subject in TOP half.\n"
                            \o "OUTPAINTING INSTRUCTION: Seamlessly extend the bottom of the environment (floor, ground, wall) downwards.\n"
                            \o "Keep the bottom area low-detail (negative space) for UI buttons."
                  ELSE IF landingPosition = "bottom"
                  THEN IF bld = "scenario"
                       THEN " LAYOUT: Subject in BOTTOM half. Clean negative space at TOP."
                       ELSE "\nLAYOUT: Subject in BOTTOM half.\n"
                            \o "OUTPAINTING INSTRUCTION: Seamlessly extend the top of the environment (sky, ceiling, wall) upwards.\n"
                            \o "Keep the top area low-detail (negative space) for Headline text."
                  ELSE "")]
    ELSE [aspectRatio |-> "1:1", instruction |-> "FORMAT: SQUARE AD (1:1)."]

\* customText && customText.trim().length > 0
HasCustomText(customText) == Truthy(customText) /\ Len(Trim(customText)) > 0

\* "3. Prepare Text Overlay Instructions" ("Text Handling Logic" in the
\* "swap" build).
TextInstruction(bld, preserveText, customText) ==
    IF bld = "scenario"
    THEN IF HasCustomText(customText)
         THEN "TEXT RENDER: Render the title \"" \o customText
              \o "\" in the image with cinematic typography fitting the scene."
         ELSE IF ~preserveText THEN "TEXT: No text. Clean image."
         ELSE ""
    ELSE IF ~preserveText
         THEN "TEXT: REMOVE ALL EXISTING TEXT/LOGOS from IMAGE_1. Clean Plate only."
         ELSE IF HasCustomText(customText)
         THEN "TEXT: REPLACE original text in IMAGE_1 with: \"" \o customText
              \o "\". MATCH the original font style, glow, and perspective exactly."
         ELSE "TEXT: KEEP original text layout style from IMAGE_1 as a mockup."

\* A part of the request: a media part (inlineData) or the text part.
MediaPart(mimeType, data) == [mimeType |-> mimeType, data |-> data, text |-> <<>>]
TextPart(lines) == [mimeType |-> Null, data |-> Null, text |-> lines]

\* ${analysisContext ? `- TECH SPECS: ${analysisContext}` : ''}
AnalysisLine(bld, analysisContext) ==
    IF Truthy(analysisContext)
    THEN (IF bld = "scenario" THEN "- TECH SPECS: " ELSE "- TECH SPECS OF IMAGE_1: ")
         \o analysisContext
    ELSE ""

\* ${creativePrompt ? `- ADDITIONAL INSTRUCTION: ${creativePrompt}` : ''}
AdditionalLine(creativePrompt) ==
    IF Truthy(creativePrompt) THEN "- ADDITIONAL INSTRUCTION: " \o creativePrompt ELSE ""

\* systemPrompt of the "scenario" build: the non-blank lines of the
\* scenario's template, in order.
SystemPrompt(scenario, formatInstruction, analysisContext, creativePrompt, textInstruction) ==
    IF scenario = "IdentityTransfer"
    THEN << "ROLE: Senior VFX Compositor.",
            "TASK: Face Replacement & Relighting.",
            formatInstruction,
            "INPUTS:",
            "- IMAGE_1 (Base Plate): Master Reference.",
            "- IMAGE_2 (Source): User Identity.",
            AnalysisLine("scenario", analysisContext),
            AdditionalLine(creativePrompt),
            "INSTRUCTIONS:",
            "1. Replace the face in IMAGE_1 with the face from IMAGE_2.",
            "2. PRESERVE IMAGE_1's lighting, shadows, and color grading exactly.",
            "3. Adapt IMAGE_2's head geometry to match IMAGE_1's angle.",
            "4. " \o textInstruction >>
    ELSE IF scenario = "GenerativePlacement"
    THEN << "ROLE: Movie Poster Concept Artist.",
            "TASK: Create a scene featuring the Actor.",
            formatInstruction,
            "INPUTS:",
            "- IMAGE_1: The Main Actor.",
            "- SCENE DESCRIPTION: \"" \o creativePrompt \o "\"",
            "INSTRUCTIONS:",
            "1. GENERATE a high-end cinematic environment based on the SCENE DESCRIPTION.",
            "2. PLACE the actor from IMAGE_1 into this scene.",
            "3. Match lighting and reflections on the actor to the new environment.",
            "4. " \o textInstruction >>
    ELSE IF scenario = "GuidedReimagination"
    THEN << "ROLE: Creative Director / Art Director.",
            "TASK: Reimagine the Reference Image.",
            formatInstruction,
            "INPUTS:",
            "- IMAGE_1: Visual Reference (Composition/Lighting Base).",
            "- CREATIVE DIRECTION: \"" \o creativePrompt \o "\"",
            "INSTRUCTIONS:",
            "1. Generate a NEW image that respects the composition and lighting structure of IMAGE_1.",
            "2. APPLY the CREATIVE DIRECTION to transform the content, style, or subject matter.",
            "3. If the prompt asks to change the person/character, generate a new fictional character fitting the description.",
            "4. Maintain the professional \"movie poster\" aesthetic of the reference.",
            "5. " \o textInstruction >>
    ELSE << "ROLE: AI Image Generator.",
            "TASK: Create a Movie Poster from scratch.",
            formatInstruction,
            "PROMPT: \"" \o creativePrompt \o "\"",
            "INSTRUCTIONS:",
            "1. Generate a Photorealistic, 8k resolution cinematic image based on the PROMPT.",
            "2. Ensure high dynamic range and dramatic lighting.",
            "3. " \o textInstruction >>

\* prompt of the "swap" build: the non-blank lines of its template.
SwapPrompt(outputType, format, analysisContext, textInstruction) ==
    << "ROLE: Senior Hollywood VFX Compositor.",
       "TASK: High-End Photorealistic Face Replacement & Compositing.",
       format.instruction,
       "INPUTS:",
       "- IMAGE_1 (Base Plate): The Master Reference. Contains the Scene, Lighting, Color Grading, Body Pose, and Composition.",
       "- IMAGE_2 (Source Identity): The User's Face.",
       AnalysisLine("swap", analysisContext),
       "STRICT INSTRUCTIONS:",
       "1. **FIDELITY TO IMAGE_1 (The Golden Rule)**:",
       "- You MUST preserve the exact lighting direction, shadow hardness, color palette, and film grain of IMAGE_1.",
       "- Do NOT create a \"new\" image style. Edit IMAGE_1.",
       "- If IMAGE_1 is dark/moody, the output MUST be dark/moody.",
       "- If IMAGE_1 has strong rim light, the new face MUST have that rim light.",
       "2. **IDENTITY SWAP (The Core Task)**:",
       "- Replace the head/face of the character in IMAGE_1 with the face from IMAGE_2.",
       "- **CRITICAL**: Adapt the geometry of the face from IMAGE_2 to match the angle and perspective of IMAGE_1.",
       "- **SKIN TEXTURE**: Apply the skin texture details (pores, sweat, grime) and lighting falloff of IMAGE_1 onto the face of IMAGE_2.",
       "- **FACE SHAPE**: Keep the identity characteristics of IMAGE_2 (nose, eyes, mouth shape), but blend the jawline/head shape to fit the body in IMAGE_1 naturally.",
       "3. **LAYOUT & COMPOSITION**:",
       "- Respect the LAYOUT instructions defined in FORMAT.",
       "- If creating \"Negative Space\" for Mobile/Web, do NOT leave it white/blank. **EXTEND THE ENVIRONMENT**. Continue the wall, sky, or background texture naturally so it looks like a wider/taller camera shot.",
       "- " \o textInstruction,
       "4. **FINAL POLISH**:",
       "- Check for \"Uncanny Valley\". Eyes must look at the correct focal point.",
       "- Match shadows on the neck/collar.",
       "- Final Output must be 4K Photorealistic.",
       "Output Format: " \o outputType \o " (Ratio: " \o format.aspectRatio \o ")." >>

\* Mutant: the identity transfer pushes the subject before the reference.
ScenarioMediaSubjectFirst(scenario, actorFile, actorBase64, referenceFile, referenceBase64) ==
    IF scenario = "IdentityTransfer"
    THEN << MediaPart(MimeType(actorFile), actorBase64),
            MediaPart(MimeType(referenceFile), referenceBase64) >>
    ELSE IF scenario = "GenerativePlacement"
    THEN << MediaPart(MimeType(actorFile), actorBase64) >>
    ELSE IF scenario = "GuidedReimagination"
    THEN << MediaPart(MimeType(referenceFile), referenceBase64) >>
    ELSE << >>

\* The contentParts.push calls of the selected scenario's branch (in the
\* "swap" build, the two media parts of the request literal).
ScenarioMedia(scenario, actorFile, actorBase64, referenceFile, referenceBase64) ==
    IF scenario = "IdentityTransfer"
    THEN << MediaPart(MimeType(referenceFile), referenceBase64),
            MediaPart(MimeType(actorFile), actorBase64) >>
    ELSE IF scenario = "GenerativePlacement"
    THEN << MediaPart(MimeType(actorFile), actorBase64) >>
    ELSE IF scenario = "GuidedReimagination"
    THEN << MediaPart(MimeType(referenceFile), referenceBase64) >>
    ELSE << >>

\* The image parts of a candidate's parts, in part order.
ImageIndexes(parts) == {i \in 1..Len(parts) : parts[i].data # ""}
TextIndexes(parts) == {i \in 1..Len(parts) : parts[i].text # ""}

\* The parts the response loops look at: those of the first candidate, when
\* there is one and it has content.parts.
FirstParts(resp) ==
    IF Len(resp.candidates) > 0 /\ resp.candidates[1].hasParts
    THEN resp.candidates[1].parts ELSE <<>>

\* error.message || fallback, rethrown by the catch of the service.
Rethrow(message, fallback) == Err(IF Truthy(message) THEN message ELSE fallback)

\* generateFinalPoster, from the backend's answer to its result.
GenerateOutcome(resp) ==
    IF resp.rejected THEN Rethrow(resp.message, GenerateFallbackMsg)
    ELSE LET parts == FirstParts(resp)
         IN IF ImageIndexes(parts) # {}
            THEN Ok(DataUriPrefix \o parts[Min(ImageIndexes(parts))].data)
            ELSE IF TextIndexes(parts) # {}
            THEN Rethrow(RefusalPrefix \o parts[Min(TextIndexes(parts))].text,
                         GenerateFallbackMsg)
            ELSE Rethrow(NoImageMsg, GenerateFallbackMsg)

\* refinePoster, from the backend's answer to its result.
RefineOutcome(bld, resp) ==
    IF resp.rejected THEN Rethrow(resp.message, RefineFallbackMsg)
    ELSE LET parts == FirstParts(resp)
         IN IF ImageIndexes(parts) # {}
            THEN Ok(DataUriPrefix \o parts[Min(ImageIndexes(parts))].data)
            ELSE Rethrow(IF bld = "scenario" THEN RefineNoImageMsgScenario
                         ELSE RefineNoImageMsgSwap, RefineFallbackMsg)

(***************************************************************************)
(* One invocation of generateFinalPoster: its arguments, its position and  *)
(* its locals.  pc: "read" awaiting the file reads, "call" awaiting the    *)
(* backend, "done" settled with `result`.                                  *)
(***************************************************************************)
\* The arguments handleGenerate has at hand before the user touches the
\* output controls (the initial values of the App's state), and the defaults
\* of the parameters it does not pass.
DefaultOutputType == "ad_feed"
DefaultLandingPos == "center"
DefaultPreserveText == FALSE
DefaultCustomText == ""

\* No request composed (yet): aspectRatio and parts of a call.
NoRatio == "none"
NoResponse == [rejected |-> FALSE, message |-> "", candidates |-> <<>>]

\* An invocation with all eight arguments.
PosterCall(actorFile, referenceFile, outputType, landingPosition, analysisContext, preserveText, customText, creativePrompt) ==
    [pc |-> "start", actorFile |-> actorFile, referenceFile |-> referenceFile,
     outputType |-> outputType, landingPosition |-> landingPosition,
     analysisContext |-> analysisContext, preserveText |-> preserveText,
     customText |-> customText, creativePrompt |-> creativePrompt,
     ai |-> FALSE, scenario |-> "none", aspectRatio |-> NoRatio, parts |-> <<>>,
     sent |-> FALSE, response |-> NoResponse, result |-> Pending]

\* An invocation with the default output controls and no analysis.
NewCall(actorFile, referenceFile, creativePrompt) ==
    PosterCall(actorFile, referenceFile, DefaultOutputType, DefaultLandingPos, Null,
               DefaultPreserveText, DefaultCustomText, creativePrompt)

\* const ai = getAiClient(): the first statement, before any await.
PosterBegin(c, apiKey) ==
    IF getAiClient(apiKey)
    THEN [c EXCEPT !.pc = "read", !.ai = TRUE]
    ELSE [c EXCEPT !.pc = "done", !.result = Err(MissingKeyMsg)]

\* After the file reads: the scenario is selected and the request is issued
\* (or the invalid-input error is thrown).  A failed read rejects with the
\* FileReader's event, which carries no message.
PosterAfterRead(c, bld, readOk) ==
    IF ~readOk THEN [c EXCEPT !.pc = "done", !.result = Err(Null)]
    ELSE LET actorBase64 ==
                 IF c.actorFile # NoFile THEN fileToBase64(c.actorFile) ELSE Null
             referenceBase64 ==
                 IF c.referenceFile # NoFile THEN fileToBase64(c.referenceFile) ELSE Null
             scenario ==
                 IF bld = "scenario"
                 THEN SelectScenario(c.actorFile, actorBase64, c.referenceFile,
                                     referenceBase64, c.creativePrompt)
                 ELSE "IdentityTransfer"
             format == FormatOf(bld, c.outputType, c.landingPosition)
             textInstruction == TextInstruction(bld, c.preserveText, c.customText)
             prompt ==
                 IF bld = "scenario"
                 THEN SystemPrompt(scenario, format.instruction, c.analysisContext,
                                   c.creativePrompt, textInstruction)
                 ELSE SwapPrompt(c.outputType, format, c.analysisContext, textInstruction)
             contentParts ==
                 Append(ScenarioMedia(scenario, c.actorFile, actorBase64,
                                      c.referenceFile, referenceBase64),
                        TextPart(prompt))
         IN IF scenario = "Invalid"
            THEN [c EXCEPT !.pc = "done", !.scenario = scenario,
                           !.result = Err(InvalidInputMsg)]
            ELSE [c EXCEPT !.pc = "call", !.scenario = scenario,
                           !.aspectRatio = format.aspectRatio, !.parts = contentParts,
                           !.sent = TRUE]

\* After the backend's answer.
PosterAfterResponse(c, resp) ==
    [c EXCEPT !.pc = "done", !.response = resp, !.result = GenerateOutcome(resp)]

(***************************************************************************)
(* One invocation of refinePoster.                                         *)
(***************************************************************************)
\* Mutant: the refinement ignores the output type.
RefineAspectSquare(outputType) == "1:1"

\* Mutant: the mobile landing page is refined as a wide image.
RefineAspectMobileWide(outputType) ==
    IF outputType = "ad_stories" THEN "9:16"
    ELSE IF outputType \in {"thumbnail", "landing_hero", "landing_mobile"} THEN "16:9"
    ELSE "1:1"

\* let aspectRatio = "1:1"; if (...) aspectRatio = "9:16"; else if (...) ...
RefineAspect(outputType) ==
    IF outputType = "ad_stories" \/ outputType = "landing_mobile" THEN "9:16"
    ELSE IF outputType = "thumbnail" \/ outputType = "landing_hero" THEN "16:9"
    ELSE "1:1"

\* prompt of refinePoster: the non-blank lines of its template.
RefinePromptLines(bld, refinementPrompt, aspectRatio) ==
    IF bld = "scenario"
    THEN << "ROLE: Senior Photo Retoucher.",
            "TASK: Detailed Image Refinement.",
            "USER REQUEST: \"" \o refinementPrompt \o "\"",
            "INSTRUCTIONS: Fix the image according to the request. Keep original quality. Output 4K.",
            "Output Ratio: " \o aspectRatio \o "." >>
    ELSE << "ROLE: Senior Photo Retoucher.",
            "TASK: Detailed Image Refinement & Fixing.",
            "INPUT IMAGE: The provided image is a nearly finished movie poster/ad creative.",
            "USER REQUEST: \"" \o refinementPrompt \o "\"",
            "INSTRUCTIONS:",
            "1. **PRESERVE INTEGRITY**: Do NOT regenerate the entire composition. Keep the lighting, color grading, background, and identity EXACTLY the same as the input image.",
            "2. **TARGETED EDIT**: Apply changes ONLY to the area specified in the USER REQUEST (e.g., if asked to fix a hand, only touch the hand).",
            "3. **QUALITY**: Ensure the fixed area blends seamlessly with the existing grain and resolution of the image.",
            "4. **OUTPUT**: Return the polished image in 4K.",
            "Output Ratio: " \o aspectRatio \o "." >>

RefineCall(currentImageBase64, refinementPrompt, outputType) ==
    [pc |-> "start", currentImageBase64 |-> currentImageBase64,
     refinementPrompt |-> refinementPrompt, outputType |-> outputType,
     ai |-> FALSE, aspectRatio |-> NoRatio, parts |-> <<>>, sent |-> FALSE,
     response |-> NoResponse, result |-> Pending]

\* refinePoster up to its await: the client, the request, the call.
RefineBegin(c, bld, apiKey) ==
    IF ~getAiClient(apiKey)
    THEN [c EXCEPT !.pc = "done", !.result = Err(MissingKeyMsg)]
    ELSE LET base64Data == SplitComma1(c.currentImageBase64)
             aspectRatio == RefineAspect(c.outputType)
             prompt == RefinePromptLines(bld, c.refinementPrompt, aspectRatio)
         IN [c EXCEPT !.pc = "call", !.ai = TRUE, !.aspectRatio = aspectRatio,
                      !.parts = << MediaPart("image/png", base64Data), TextPart(prompt) >>,
                      !.sent = TRUE]

\* After the backend's answer.
RefineAfterResponse(c, bld, resp) ==
    [c EXCEPT !.pc = "done", !.response = resp, !.result = RefineOutcome(bld, resp)]

(***************************************************************************)
(* analyzeImageStructure: it never rejects; every failure becomes the      *)
(* fallback text.                                                          *)
(***************************************************************************)
\* The notes the analysis backend writes about file f.
NotesOf(f) == "Technical notes on image " \o ToString(f)

\* What the analysis backend does with file f: a text, no text, or an error.
AnalysisAnswers(f) ==
    {[rejected |-> FALSE, text |-> NotesOf(f)], [rejected |-> FALSE, text |-> ""],
     [rejected |-> TRUE, text |-> ""]}

AnalyzeOutcome(ans) ==
    IF ans.rejected THEN AnalysisUnavailable
    ELSE IF Truthy(ans.text) THEN ans.text ELSE AnalysisNoText

(***************************************************************************)
(* The App.                                                                *)
(***************************************************************************)
VARIABLES
    build,           \* which build of the service the App imports
    envKey,          \* process.env.API_KEY
    aiStudio,        \* whether window.aistudio exists
    keyCheck,        \* the mount effect checkKey: "mount", "asking", "done"
    keyDialog,       \* handleApiKeySelect awaiting openSelectKey
    apiKeySet,
    actorFile,
    refFile,
    isProcessing,
    isAnalyzing,
    isRefining,
    analysisText,
    generatedImage,
    refinePrompt,
    steps,           \* the five stages: 1..5 -> [status, details]
    gens,            \* the handleGenerate invocations in flight
    refs,            \* the handleRefine invocations in flight
    analyses,        \* the handleAnalyze invocations in flight
    last,            \* what the latest block of code did (see Did)
    poster,          \* a direct invocation of generateFinalPoster (SpecPoster)
    outputType,
    landingDevice,
    landingPos,
    syncDue,         \* the device/position effect is scheduled to run
    syncRuns,        \* runs of that effect since the last user event
    isOpen,          \* ChatAssistant: the panel is open
    messages,        \* ChatAssistant: the history, [role, text] entries
    input,           \* ChatAssistant: the input field
    isLoading,       \* ChatAssistant
    sends            \* ChatAssistant: the handleSend invocations in flight

vars == <<build, envKey, aiStudio, keyCheck, keyDialog, apiKeySet, actorFile, refFile,
          isProcessing, isAnalyzing, isRefining, analysisText, generatedImage,
          refinePrompt, steps, gens, refs, analyses, last, poster,
          outputType, landingDevice, landingPos, syncDue, syncRuns,
          isOpen, messages, input, isLoading, sends>>

outVars == <<outputType, landingDevice, landingPos, syncDue, syncRuns>>
chatVars == <<isOpen, messages, input, isLoading, sends>>

keyVars == <<envKey, aiStudio, keyCheck, keyDialog, apiKeySet>>
fileVars == <<actorFile, refFile>>

Stages == 1..5

Stage(status, details) == [status |-> status, details |-> details]

InitialSteps ==
    [i \in Stages |->
        IF i = 1 THEN Stage("pending", "Waiting for inputs") ELSE Stage("pending", Null)]

\* Mutant: the updater forgets the id test and rewrites every stage.
updateStepAll(s, id, status, details) == [i \in Stages |-> Stage(status, details)]

\* updateStep, and the two inline updaters of handleAnalyze.
updateStep(s, id, status, details) == [s EXCEPT ![id] = Stage(status, details)]

\* Mutant: the reset forgets to keep a finished analysis stage.
ResetAllSteps(s, analysis) == [i \in Stages |-> Stage("pending", Null)]

\* Mutant: no reset at all.
ResetNothing(s, analysis) == s

\* The reset of handleGenerate: "Reset steps but keep analysis if done".
ResetSteps(s, analysis) ==
    [i \in Stages |->
        IF i = 1 /\ Truthy(analysis) THEN s[i] ELSE Stage("pending", Null)]

\* Mutant: the step 1 check is left out.
Step1CheckSkipped(s, analysis) == s

\* Mutant: the step 1 check tests the opposite condition.
Step1CheckInverted(s, analysis) ==
    IF Truthy(analysis) THEN updateStep(s, 1, "completed", "Using fast segmentation")
    ELSE s

\* "Step 1 check".
Step1Check(s, analysis) ==
    IF ~Truthy(analysis) THEN updateStep(s, 1, "completed", "Using fast segmentation")
    ELSE s

\* Mutant: the refinement marks stage 4 instead of stage 5.
RefineProcessingStage4(s) == updateStep(s, 4, "processing", "Applying Magic Fix...")

\* handleRefine's first update.
RefineProcessing(s) == updateStep(s, 5, "processing", "Applying Magic Fix...")

\* Mutant: the catch of handleRefine clears the artifact.
ImageClearedAfterFailedRefine(image) == Null

\* The artifact after a failed refinement: the catch leaves it alone.
ImageAfterFailedRefine(image) == image

\* Mutant: every failure shows the generic text.
DisplayMsgGeneric(msg) == GenericFailureMsg

\* const displayMsg = msg.length > 50 ? ... : msg
DisplayMsg(msg) == IF Len(msg) > DisplayLimit THEN GenericFailureMsg ELSE msg

\* Mutant: an invocation that has settled is not ended.
RemoveNothing(seq, i) == seq

Remove(seq, i) == SubSeq(seq, 1, i - 1) \o SubSeq(seq, i + 1, Len(seq))

\* The record of the latest block: the handler step `op`, the successive
\* values of the stage list its updaters produced (`log`, the value before
\* first), and for a block that settles an invocation: whether it succeeded
\* (`ok`), the error message (`err`), the artifact the invocation started
\* from (`before`) and whether it had issued its backend request (`sent`).
Did(op, log, ok, err, before, sent) ==
    [op |-> op, log |-> log, ok |-> ok, err |-> err, before |-> before, sent |-> sent]

\* A block that touches neither the stages nor an invocation.
Other == Did("other", <<>>, TRUE, Null, Null, FALSE)

NoPoster == NewCall(NoFile, NoFile, "")

\* ChatAssistant's first entry.
WelcomeMsg ==
    "Hello! I am your CineMorph assistant. Ask me anything about creating movie posters or using the platform."

Message(role, text) == [role |-> role, text |-> text]

\* The output controls as constructed, the device/position effect having
\* run on mount (it changes nothing for AD_FEED).
OutputAtRest ==
    /\ outputType = DefaultOutputType
    /\ landingDevice = "desktop"
    /\ landingPos = DefaultLandingPos
    /\ syncDue = FALSE
    /\ syncRuns = 0

\* ChatAssistant as constructed.
ChatAtRest ==
    /\ isOpen = FALSE
    /\ messages = <<Message("model", WelcomeMsg)>>
    /\ input = ""
    /\ isLoading = FALSE
    /\ sends = <<>>

\* The main screen is rendered only with a key set ("if (!apiKeySet) return").
MainScreen == apiKeySet

Init ==
    /\ build = "scenario"
    /\ envKey \in EnvKeys
    /\ aiStudio \in BOOLEAN
    /\ keyCheck = "mount"
    /\ keyDialog = FALSE
    /\ apiKeySet = FALSE
    /\ actorFile = NoFile
    /\ refFile = NoFile
    /\ isProcessing = FALSE
    /\ isAnalyzing = FALSE
    /\ isRefining = FALSE
    /\ analysisText = Null
    /\ generatedImage = Null
    /\ refinePrompt = ""
    /\ steps = InitialSteps
    /\ gens = <<>>
    /\ refs = <<>>
    /\ analyses = <<>>
    /\ last = Other
    /\ OutputAtRest
    /\ ChatAtRest
    /\ poster = NoPoster

(***************************************************************************)
(* The access key: the mount effect checkKey and handleApiKeySelect.       *)
(***************************************************************************)
CheckKeyMount ==
    /\ keyCheck = "mount"
    /\ IF Truthy(envKey) THEN apiKeySet' = TRUE /\ keyCheck' = "done"
       ELSE IF aiStudio THEN apiKeySet' = apiKeySet /\ keyCheck' = "asking"
       ELSE apiKeySet' = apiKeySet /\ keyCheck' = "done"
    /\ last' = Other
    /\ UNCHANGED <<outVars, chatVars, build, envKey, aiStudio, keyDialog, fileVars, isProcessing,
                   isAnalyzing, isRefining, analysisText, generatedImage, refinePrompt,
                   steps, gens, refs, analyses, poster>>

\* aiStudio.hasSelectedApiKey() answers.
CheckKeyAnswer(has) ==
    /\ keyCheck = "asking"
    /\ keyCheck' = "done"
    /\ apiKeySet' = (apiKeySet \/ has)
    /\ last' = Other
    /\ UNCHANGED <<outVars, chatVars, build, envKey, aiStudio, keyDialog, fileVars, isProcessing,
                   isAnalyzing, isRefining, analysisText, generatedImage, refinePrompt,
                   steps, gens, refs, analyses, poster>>

\* The "Select API Key" button of the key screen.
ClickSelectKey ==
    /\ ~apiKeySet /\ aiStudio /\ ~keyDialog
    /\ keyDialog' = TRUE
    /\ last' = Other
    /\ UNCHANGED <<outVars, chatVars, build, envKey, aiStudio, keyCheck, apiKeySet, fileVars, isProcessing,
                   isAnalyzing, isRefining, analysisText, generatedImage, refinePrompt,
                   steps, gens, refs, analyses, poster>>

\* openSelectKey settles: resolved, the key is assumed set ("Assume
\* success"); the environment may or may not hold the chosen key by then (a
\* key it already holds stays).
SelectKeyDone(resolved, key) ==
    /\ keyDialog
    /\ keyDialog' = FALSE
    /\ IF resolved
       THEN apiKeySet' = TRUE /\ envKey' \in {envKey, key}
       ELSE apiKeySet' = apiKeySet /\ envKey' = envKey
    /\ last' = Other
    /\ UNCHANGED <<outVars, chatVars, build, aiStudio, keyCheck, fileVars, isProcessing,
                   isAnalyzing, isRefining, analysisText, generatedImage, refinePrompt,
                   steps, gens, refs, analyses, poster>>

(***************************************************************************)
(* handleFileUpload and handleAnalyze.                                     *)
(***************************************************************************)
UploadActor(f) ==
    /\ MainScreen
    /\ actorFile' = f
    /\ last' = Other
    /\ UNCHANGED <<outVars, chatVars, build, keyVars, refFile, isProcessing, isAnalyzing, isRefining,
                   analysisText, generatedImage, refinePrompt, steps, gens, refs,
                   analyses, poster>>

\* The end of handleAnalyze with the text analyzeImageStructure returned.
AnalyzeSettle(text) ==
    /\ analysisText' = text
    /\ steps' = updateStep(steps, 1, "completed", "Lighting topology mapped")
    /\ isAnalyzing' = FALSE
    /\ last' = Did("analyze_end", <<steps, steps'>>, TRUE, Null, Null, FALSE)

\* A reference upload starts handleAnalyze(file).  Without an environment
\* key analyzeImageStructure returns its fallback text at once.
UploadReferenceUpTo(f, cap) ==
    /\ MainScreen
    /\ refFile' = f
    /\ IF ~apiKeySet
       THEN /\ last' = Other
            /\ UNCHANGED <<isAnalyzing, analysisText, steps, analyses>>
       ELSE IF ~getAiClient(envKey)
       THEN AnalyzeSettle(AnalysisUnavailable) /\ UNCHANGED analyses
       ELSE /\ Len(analyses) < cap
            /\ isAnalyzing' = TRUE
            /\ analysisText' = Null
            /\ analyses' = Append(analyses, [pc |-> "call", file |-> f])
            /\ last' = Did("analyze", <<steps>>, TRUE, Null, Null, FALSE)
            /\ UNCHANGED steps
    /\ UNCHANGED <<outVars, chatVars, build, keyVars, actorFile, isProcessing, isRefining,
                   generatedImage, refinePrompt, gens, refs, poster>>

UploadReference(f) == UploadReferenceUpTo(f, MaxAnalyses)

\* analyzeImageStructure settles: the file read and the backend call are one
\* suspension of handleAnalyze, and a failure of either gives the fallback.
AnalysisAnswer(i, ans) ==
    /\ i \in 1..Len(analyses)
    /\ analyses[i].pc = "call"
    /\ ans \in AnalysisAnswers(analyses[i].file)
    /\ analyses' = Remove(analyses, i)
    /\ AnalyzeSettle(AnalyzeOutcome(ans))
    /\ UNCHANGED <<outVars, chatVars, build, keyVars, fileVars, isProcessing, isRefining,
                   generatedImage, refinePrompt, gens, refs, poster>>

(***************************************************************************)
(* handleGenerate.                                                         *)
(***************************************************************************)
\* Mutant: the button is not disabled while an operation runs.
GenerateEnabledWhileBusy == actorFile # NoFile /\ refFile # NoFile

\* The generate button is enabled (its `disabled` attribute).
GenerateEnabled ==
    /\ actorFile # NoFile /\ refFile # NoFile
    /\ ~isProcessing /\ ~isRefining

GenerateGuard == actorFile # NoFile /\ refFile # NoFile /\ apiKeySet

\* The call of generateFinalPoster by invocation g of handleGenerate, with
\* the state the handler closed over when it was triggered: seven
\* arguments, the creative prompt left to its default.
GenerateCall(g) ==
    PosterCall(g.actorFile, g.refFile, g.outputType, g.landingPos,
               IF Truthy(g.analysisText) THEN g.analysisText ELSE Null,
               DefaultPreserveText, DefaultCustomText, "")

\* From the click to the first timer.
HandleGenerate ==
    /\ MainScreen /\ GenerateEnabled /\ GenerateGuard
    /\ ~syncDue
    /\ Len(gens) < MaxInFlight
    /\ isProcessing' = TRUE
    /\ generatedImage' = Null
    /\ LET s1 == ResetSteps(steps, analysisText)
           s2 == Step1Check(s1, analysisText)
           s3 == updateStep(s2, 2, "processing", "Skeleton mapping & Pose transfer...")
       IN /\ steps' = s3
          /\ last' = Did("generate", <<steps, s1, s2, s3>>, TRUE, Null, generatedImage,
                         FALSE)
    /\ gens' = Append(gens, [pc |-> "t1", actorFile |-> actorFile, refFile |-> refFile,
                             analysisText |-> analysisText,
                             outputType |-> outputType, landingPos |-> landingPos,
                             before |-> generatedImage, call |-> NoPoster])
    /\ UNCHANGED <<outVars, chatVars, build, keyVars, fileVars, isAnalyzing, isRefining, analysisText,
                   refinePrompt, refs, analyses, poster>>

\* The first timer fires.
GenerateTimer1(i) ==
    /\ i \in 1..Len(gens)
    /\ gens[i].pc = "t1"
    /\ LET s1 == updateStep(steps, 2, "completed", Null)
           s2 == updateStep(s1, 3, "processing", "Raytraced Shadow & Skin SSS...")
       IN /\ steps' = s2
          /\ last' = Did("generate_t1", <<steps, s1, s2>>, TRUE, Null, gens[i].before,
                         FALSE)
    /\ gens' = [gens EXCEPT ![i].pc = "t2"]
    /\ UNCHANGED <<outVars, chatVars, build, keyVars, fileVars, isProcessing, isAnalyzing, isRefining,
                   analysisText, generatedImage, refinePrompt, refs, analyses, poster>>

\* The catch and finally of handleGenerate, for invocation i whose call of
\* generateFinalPoster settled as `call`; s is the stage list and log the
\* values it went through in this block.
GenerateCatch(i, call, s, log) ==
    LET msg == IF Truthy(call.result.value) THEN call.result.value ELSE UnknownErrorMsg
        keyLost == Includes(msg, EntityNotFound)
    IN IF keyLost /\ aiStudio
       THEN \* await aiStudio.openSelectKey()
            /\ apiKeySet' = FALSE
            /\ steps' = s
            /\ gens' = [gens EXCEPT ![i].pc = "prompt", ![i].call = call]
            /\ isProcessing' = isProcessing
            /\ last' = Did("generate_reprompt", log, FALSE, msg, gens[i].before,
                           call.sent)
       ELSE /\ apiKeySet' = (apiKeySet /\ ~keyLost)
            /\ steps' = updateStep(s, 5, "error", DisplayMsg(msg))
            /\ gens' = Remove(gens, i)
            /\ isProcessing' = FALSE
            /\ last' = Did("generate_failed", Append(log, steps'), FALSE, msg,
                           gens[i].before, call.sent)

\* The second timer fires: stages 3 to 5 and the call of generateFinalPoster
\* up to its first await.
GenerateTimer2(i) ==
    /\ i \in 1..Len(gens)
    /\ gens[i].pc = "t2"
    /\ LET s1 == updateStep(steps, 3, "completed", Null)
           s2 == updateStep(s1, 4, "processing", "Compositing Layout & Breathing Room...")
           s3 == updateStep(s2, 4, "completed", Null)
           s4 == updateStep(s3, 5, "processing", "Final 4K Texture Grading...")
           log == <<steps, s1, s2, s3, s4>>
           call == PosterBegin(GenerateCall(gens[i]), envKey)
       IN IF call.pc = "done"
          THEN GenerateCatch(i, call, s4, log)
          ELSE /\ steps' = s4
               /\ gens' = [gens EXCEPT ![i].pc = "poster", ![i].call = call]
               /\ last' = Did("generate_t2", log, TRUE, Null, gens[i].before, FALSE)
               /\ UNCHANGED <<apiKeySet, isProcessing>>
    /\ UNCHANGED <<outVars, chatVars, build, envKey, aiStudio, keyCheck, keyDialog, fileVars, isAnalyzing,
                   isRefining, analysisText, generatedImage, refinePrompt, refs,
                   analyses, poster>>

\* The file reads of generateFinalPoster settle; on success the request goes
\* out to the generation backend.
GenerateFilesRead(i, readOk) ==
    /\ i \in 1..Len(gens)
    /\ gens[i].pc = "poster" /\ gens[i].call.pc = "read"
    /\ LET call == PosterAfterRead(gens[i].call, build, readOk)
       IN IF call.pc = "done"
          THEN GenerateCatch(i, call, steps, <<steps>>)
          ELSE /\ gens' = [gens EXCEPT ![i].call = call]
               /\ last' = Did("generate_send", <<steps>>, TRUE, Null, gens[i].before,
                              call.sent)
               /\ UNCHANGED <<apiKeySet, isProcessing, steps>>
    /\ UNCHANGED <<outVars, chatVars, build, envKey, aiStudio, keyCheck, keyDialog, fileVars, isAnalyzing,
                   isRefining, analysisText, generatedImage, refinePrompt, refs,
                   analyses, poster>>

\* The generation backend answers.
GenerateAnswer(i, resp) ==
    /\ i \in 1..Len(gens)
    /\ gens[i].pc = "poster" /\ gens[i].call.pc = "call"
    /\ LET call == PosterAfterResponse(gens[i].call, resp)
       IN IF call.result.ok
          THEN /\ generatedImage' = call.result.value
               /\ steps' = updateStep(steps, 5, "completed", "Render finished")
               /\ isProcessing' = FALSE
               /\ gens' = Remove(gens, i)
               /\ last' = Did("generate_done", <<steps, steps'>>, TRUE, Null,
                              gens[i].before, call.sent)
               /\ UNCHANGED apiKeySet
          ELSE /\ GenerateCatch(i, call, steps, <<steps>>)
               /\ UNCHANGED generatedImage
    /\ UNCHANGED <<outVars, chatVars, build, envKey, aiStudio, keyCheck, keyDialog, fileVars, isAnalyzing,
                   isRefining, analysisText, refinePrompt, refs, analyses, poster>>

\* openSelectKey, awaited in the catch, settles.  Resolved: the key is taken
\* as refreshed.  Rejected: the error leaves the catch and only the finally
\* runs.
GenerateKeyDialog(i, resolved, key) ==
    /\ i \in 1..Len(gens)
    /\ gens[i].pc = "prompt"
    /\ IF resolved
       THEN /\ apiKeySet' = TRUE
            /\ envKey' \in {envKey, key}
            /\ steps' = updateStep(steps, 5, "error", KeyRefreshedMsg)
       ELSE UNCHANGED <<apiKeySet, envKey, steps>>
    /\ isProcessing' = FALSE
    /\ gens' = Remove(gens, i)
    /\ last' = Did("generate_prompted", <<steps, steps'>>, FALSE, gens[i].call.result.value,
                   gens[i].before, gens[i].call.sent)
    /\ UNCHANGED <<outVars, chatVars, build, aiStudio, keyCheck, keyDialog, fileVars, isAnalyzing,
                   isRefining, analysisText, generatedImage, refinePrompt, refs,
                   analyses, poster>>

(***************************************************************************)
(* handleRefine.                                                           *)
(***************************************************************************)
RefinePrompts == {"", "  ", "Fix the index finger"}

\* The Magic Fix bar is rendered, and its input and button are enabled.
RefineBarVisible == Truthy(generatedImage) /\ ~isProcessing

RefineGuard == Truthy(generatedImage) /\ Trim(refinePrompt) # "" /\ ~isRefining

TypeRefinePrompt(p) ==
    /\ MainScreen /\ RefineBarVisible /\ ~isRefining
    /\ p # refinePrompt
    /\ refinePrompt' = p
    /\ last' = Other
    /\ UNCHANGED <<outVars, chatVars, build, keyVars, fileVars, isProcessing, isAnalyzing, isRefining,
                   analysisText, generatedImage, steps, gens, refs, analyses, poster>>

\* From the click (or Enter) to the await of refinePoster; without an
\* environment key refinePoster rejects at once.
HandleRefine ==
    /\ MainScreen /\ RefineBarVisible /\ RefineGuard
    /\ Len(refs) < MaxInFlight
    /\ LET s1 == RefineProcessing(steps)
       IN IF getAiClient(envKey)
          THEN /\ isRefining' = TRUE
               /\ steps' = s1
               /\ refs' = Append(refs, [pc |-> "call", currentImage |-> generatedImage,
                                        prompt |-> refinePrompt, sent |-> TRUE])
               /\ last' = Did("refine", <<steps, s1>>, TRUE, Null, generatedImage, TRUE)
               /\ UNCHANGED generatedImage
          ELSE /\ isRefining' = FALSE
               /\ steps' = updateStep(s1, 5, "error", "Refinement failed. Try again.")
               /\ generatedImage' = ImageAfterFailedRefine(generatedImage)
               /\ last' = Did("refine_failed", <<steps, s1, steps'>>, FALSE, MissingKeyMsg,
                              generatedImage, FALSE)
               /\ UNCHANGED refs
    /\ UNCHANGED <<outVars, chatVars, build, keyVars, fileVars, isProcessing, isAnalyzing, analysisText,
                   refinePrompt, gens, analyses, poster>>

\* The generation backend answers a refinement.
RefineAnswer(i, resp) ==
    /\ i \in 1..Len(refs)
    /\ refs[i].pc = "call"
    /\ LET out == RefineOutcome(build, resp)
       IN IF out.ok
          THEN /\ generatedImage' = out.value
               /\ refinePrompt' = ""
               /\ steps' = updateStep(steps, 5, "completed", "Refinement applied successfully")
               /\ last' = Did("refine_done", <<steps, steps'>>, TRUE, Null,
                              refs[i].currentImage, TRUE)
          ELSE /\ generatedImage' = ImageAfterFailedRefine(generatedImage)
               /\ refinePrompt' = refinePrompt
               /\ steps' = updateStep(steps, 5, "error", "Refinement failed. Try again.")
               /\ last' = Did("refine_failed", <<steps, steps'>>, FALSE, out.value,
                              refs[i].currentImage, TRUE)
    /\ isRefining' = FALSE
    /\ refs' = Remove(refs, i)
    /\ UNCHANGED <<outVars, chatVars, build, keyVars, fileVars, isProcessing, isAnalyzing, analysisText,
                   gens, analyses, poster>>

(***************************************************************************)
(* The output controls (3. Output Specs) and the effect that keeps output  *)
(* type, landing device and landing position together.  A click is handled *)
(* once the effects of the previous render have run; the effect is         *)
(* scheduled again by a render that changed one of its dependencies.       *)
(***************************************************************************)
Devices == {"desktop", "mobile"}

LandingTypes == {"landing_hero", "landing_mobile"}

\* The four format buttons and the output type each one sets.
FormatButtons == {"ad_feed", "ad_stories", "landing_hero", "thumbnail"}

\* The position buttons rendered for a device.
PositionButtons(device) ==
    IF device = "desktop" THEN {"left", "center", "right"} ELSE {"top", "bottom"}

\* The variables no output control touches.
mainVars == <<build, keyVars, fileVars, isProcessing, isAnalyzing, isRefining,
              analysisText, generatedImage, refinePrompt, steps, gens, refs,
              analyses, poster>>

\* Mutant: the effect forgets to reset a position the device does not have.
SyncOutputKeepsPosition(type, device, pos) ==
    IF type \in LandingTypes
    THEN [outputType |-> IF device = "desktop" THEN "landing_hero" ELSE "landing_mobile",
          landingPos |-> pos]
    ELSE [outputType |-> type, landingPos |-> pos]

\* Mutant: the effect sets the output type of the other device.
SyncOutputSwapped(type, device, pos) ==
    IF type \in LandingTypes
    THEN IF device = "desktop"
         THEN [outputType |-> "landing_mobile",
               landingPos |-> IF pos \in {"top", "bottom"} THEN "center" ELSE pos]
         ELSE [outputType |-> "landing_hero",
               landingPos |-> IF pos \in {"left", "right", "center"} THEN "top" ELSE pos]
    ELSE [outputType |-> type, landingPos |-> pos]

\* The body of the effect: the output type and position it leaves.
SyncOutput(type, device, pos) ==
    IF type \in LandingTypes
    THEN IF device = "desktop"
         THEN [outputType |-> "landing_hero",
               landingPos |-> IF pos \in {"top", "bottom"} THEN "center" ELSE pos]
         ELSE [outputType |-> "landing_mobile",
               landingPos |-> IF pos \in {"left", "right", "center"} THEN "top" ELSE pos]
    ELSE [outputType |-> type, landingPos |-> pos]

\* The effect runs; a change of output type or position renders again and
\* schedules the next run.
SyncEffect ==
    /\ syncDue
    /\ syncRuns < MaxSyncRuns
    /\ LET out == SyncOutput(outputType, landingDevice, landingPos)
       IN /\ outputType' = out.outputType
          /\ landingPos' = out.landingPos
          /\ syncDue' = (out.outputType # outputType \/ out.landingPos # landingPos)
    /\ syncRuns' = syncRuns + 1
    /\ last' = Other
    /\ UNCHANGED <<landingDevice, mainVars, chatVars>>

\* A format button: setOutputType(t); setLandingDevice('desktop').
SelectFormat(t) ==
    /\ MainScreen /\ ~syncDue
    /\ t \in FormatButtons
    /\ outputType' = t
    /\ landingDevice' = "desktop"
    /\ syncDue' = (t # outputType \/ landingDevice # "desktop")
    /\ syncRuns' = 0
    /\ last' = Other
    /\ UNCHANGED <<landingPos, mainVars, chatVars>>

\* The device toggle of the landing page settings.
SelectDevice(d) ==
    /\ MainScreen /\ ~syncDue
    /\ outputType \in LandingTypes
    /\ landingDevice' = d
    /\ syncDue' = (d # landingDevice)
    /\ syncRuns' = 0
    /\ last' = Other
    /\ UNCHANGED <<outputType, landingPos, mainVars, chatVars>>

\* A position button of the landing page settings.
SelectPosition(pos) ==
    /\ MainScreen /\ ~syncDue
    /\ outputType \in LandingTypes
    /\ pos \in PositionButtons(landingDevice)
    /\ landingPos' = pos
    /\ syncDue' = (pos # landingPos)
    /\ syncRuns' = 0
    /\ last' = Other
    /\ UNCHANGED <<outputType, landingDevice, mainVars, chatVars>>

(***************************************************************************)
(* ChatAssistant (components/ChatAssistant) and sendChatMessage.           *)
(***************************************************************************)
ChatInputs == {"", "  ", "How do I start?", "Thanks"}

ChatErrorNotice == "Sorry, I encountered an error. Please check your API key."
ChatNoText == "I couldn't generate a response."

\* What the chat backend does with a message: a text, no text, or an error.
ChatReplies ==
    {[rejected |-> FALSE, text |-> "Upload two images."],
     [rejected |-> FALSE, text |-> ""],
     [rejected |-> TRUE, text |-> ""]}

\* The model entry handleSend appends for a reply: the try or the catch.
ChatOutcome(reply) ==
    IF reply.rejected THEN ChatErrorNotice
    ELSE IF Truthy(reply.text) THEN reply.text ELSE ChatNoText

\* Mutant: handleSend does not test isLoading.
SendGuardWhileLoading(text, loading) == Trim(text) # ""

\* "if (!input.trim() || isLoading) return"
SendGuard(text, loading) == Trim(text) # "" /\ ~loading

\* The variables ChatAssistant does not touch.
nonChatVars == <<mainVars, outVars>>

OpenChat ==
    /\ MainScreen /\ ~isOpen
    /\ isOpen' = TRUE
    /\ last' = Other
    /\ UNCHANGED <<messages, input, isLoading, sends, nonChatVars>>

CloseChat ==
    /\ MainScreen /\ isOpen
    /\ isOpen' = FALSE
    /\ last' = Other
    /\ UNCHANGED <<messages, input, isLoading, sends, nonChatVars>>

TypeChatInput(t) ==
    /\ MainScreen /\ isOpen
    /\ t # input
    /\ input' = t
    /\ last' = Other
    /\ UNCHANGED <<isOpen, messages, isLoading, sends, nonChatVars>>

\* handleSend from the Enter key or the button, up to the await of
\* sendChatMessage; without an environment key sendChatMessage rejects at
\* once and the catch and finally follow.
HandleSend ==
    /\ MainScreen /\ isOpen
    /\ SendGuard(input, isLoading)
    /\ Len(sends) < MaxInFlight
    /\ Len(messages) < 2 * MaxExchanges
    /\ input' = ""
    /\ LET asked == Append(messages, Message("user", input))
       IN IF getAiClient(envKey)
          THEN /\ messages' = asked
               /\ isLoading' = TRUE
               /\ sends' = Append(sends, [history |-> messages, message |-> input])
          ELSE /\ messages' = Append(asked, Message("model", ChatErrorNotice))
               /\ isLoading' = FALSE
               /\ sends' = sends
    /\ last' = Other
    /\ UNCHANGED <<isOpen, nonChatVars>>

\* The chat backend answers send i.
ChatAnswer(i, reply) ==
    /\ i \in 1..Len(sends)
    /\ messages' = Append(messages, Message("model", ChatOutcome(reply)))
    /\ isLoading' = FALSE
    /\ sends' = Remove(sends, i)
    /\ last' = Other
    /\ UNCHANGED <<isOpen, input, nonChatVars>>

(***************************************************************************)
(* The App's specification.                                                *)
(***************************************************************************)
Next ==
    \/ CheckKeyMount
    \/ \E has \in BOOLEAN : CheckKeyAnswer(has)
    \/ ClickSelectKey
    \/ \E resolved \in BOOLEAN, key \in Keys : SelectKeyDone(resolved, key)
    \/ \E f \in Files : UploadActor(f)
    \/ \E f \in Files : UploadReference(f)
    \/ \E i \in 1..MaxAnalyses, ans \in UNION {AnalysisAnswers(f) : f \in Files} :
           AnalysisAnswer(i, ans)
    \/ HandleGenerate
    \/ \E i \in 1..MaxInFlight : GenerateTimer1(i)
    \/ \E i \in 1..MaxInFlight : GenerateTimer2(i)
    \/ \E i \in 1..MaxInFlight, readOk \in BOOLEAN : GenerateFilesRead(i, readOk)
    \/ \E i \in 1..MaxInFlight, resp \in Responses : GenerateAnswer(i, resp)
    \/ \E i \in 1..MaxInFlight, resolved \in BOOLEAN, key \in Keys :
           GenerateKeyDialog(i, resolved, key)
    \/ \E p \in RefinePrompts : TypeRefinePrompt(p)
    \/ HandleRefine
    \/ \E i \in 1..MaxInFlight, resp \in Responses : RefineAnswer(i, resp)

Spec == Init /\ [][Next]_vars

(***************************************************************************)
(* The App with a key configured and both images uploaded: the output      *)
(* controls, their effect (first run on mount) and handleGenerate.         *)
(***************************************************************************)
InitOutput ==
    /\ build = "scenario"
    /\ envKey \in Keys
    /\ aiStudio = TRUE
    /\ keyCheck = "done"
    /\ keyDialog = FALSE
    /\ apiKeySet = TRUE
    /\ actorFile = 1
    /\ refFile = 1
    /\ isProcessing = FALSE
    /\ isAnalyzing = FALSE
    /\ isRefining = FALSE
    /\ analysisText = Null
    /\ generatedImage = Null
    /\ refinePrompt = ""
    /\ steps = InitialSteps
    /\ gens = <<>>
    /\ refs = <<>>
    /\ analyses = <<>>
    /\ last = Other
    /\ poster = NoPoster
    /\ outputType = DefaultOutputType
    /\ landingDevice = "desktop"
    /\ landingPos = DefaultLandingPos
    /\ syncDue = TRUE
    /\ syncRuns = 0
    /\ ChatAtRest

NextOutput ==
    \/ SyncEffect
    \/ \E t \in FormatButtons : SelectFormat(t)
    \/ \E d \in Devices : SelectDevice(d)
    \/ \E pos \in LandingPositions : SelectPosition(pos)
    \/ HandleGenerate
    \/ \E i \in 1..MaxInFlight : GenerateTimer1(i)
    \/ \E i \in 1..MaxInFlight : GenerateTimer2(i)
    \/ \E i \in 1..MaxInFlight, readOk \in BOOLEAN : GenerateFilesRead(i, readOk)
    \/ \E i \in 1..MaxInFlight, resp \in Responses : GenerateAnswer(i, resp)
    \/ \E i \in 1..MaxInFlight, resolved \in BOOLEAN, key \in Keys :
           GenerateKeyDialog(i, resolved, key)

SpecOutput == InitOutput /\ [][NextOutput]_vars

(***************************************************************************)
(* The output controls and their effect alone, started from every          *)
(* combination of output type, device and position.                        *)
(***************************************************************************)
InitSync ==
    /\ build = "scenario"
    /\ envKey \in Keys
    /\ aiStudio = FALSE
    /\ keyCheck = "done"
    /\ keyDialog = FALSE
    /\ apiKeySet = TRUE
    /\ actorFile = NoFile
    /\ refFile = NoFile
    /\ isProcessing = FALSE
    /\ isAnalyzing = FALSE
    /\ isRefining = FALSE
    /\ analysisText = Null
    /\ generatedImage = Null
    /\ refinePrompt = ""
    /\ steps = InitialSteps
    /\ gens = <<>>
    /\ refs = <<>>
    /\ analyses = <<>>
    /\ last = Other
    /\ poster = NoPoster
    /\ outputType \in OutputTypes
    /\ landingDevice \in Devices
    /\ landingPos \in LandingPositions
    /\ syncDue = TRUE
    /\ syncRuns = 0
    /\ ChatAtRest

NextSync ==
    \/ SyncEffect
    \/ \E t \in FormatButtons : SelectFormat(t)
    \/ \E d \in Devices : SelectDevice(d)
    \/ \E pos \in LandingPositions : SelectPosition(pos)

\* Scheduled effects run.
SpecSync == InitSync /\ [][NextSync]_vars /\ WF_vars(SyncEffect)

(***************************************************************************)
(* ChatAssistant alone, on the main screen, with or without a key in the   *)
(* environment.                                                            *)
(***************************************************************************)
InitChat ==
    /\ build = "scenario"
    /\ envKey \in EnvKeys
    /\ aiStudio = TRUE
    /\ keyCheck = "done"
    /\ keyDialog = FALSE
    /\ apiKeySet = TRUE
    /\ actorFile = NoFile
    /\ refFile = NoFile
    /\ isProcessing = FALSE
    /\ isAnalyzing = FALSE
    /\ isRefining = FALSE
    /\ analysisText = Null
    /\ generatedImage = Null
    /\ refinePrompt = ""
    /\ steps = InitialSteps
    /\ gens = <<>>
    /\ refs = <<>>
    /\ analyses = <<>>
    /\ last = Other
    /\ poster = NoPoster
    /\ outputType = DefaultOutputType
    /\ landingDevice = "desktop"
    /\ landingPos = DefaultLandingPos
    /\ syncDue = FALSE
    /\ syncRuns = 0
    /\ isOpen = FALSE
    /\ messages = <<Message("model", WelcomeMsg)>>
    /\ input = ""
    /\ isLoading = FALSE
    /\ sends = <<>>

NextChat ==
    \/ OpenChat
    \/ CloseChat
    \/ \E t \in ChatInputs : TypeChatInput(t)
    \/ HandleSend
    \/ \E i \in 1..MaxInFlight, reply \in ChatReplies : ChatAnswer(i, reply)

SpecChat == InitChat /\ [][NextChat]_vars

(***************************************************************************)
(* Reference uploads and their analyses alone, with a key configured and   *)
(* a new reference uploaded while earlier analyses are still in flight.    *)
(***************************************************************************)
InitAnalyze ==
    /\ build = "scenario"
    /\ envKey \in Keys
    /\ aiStudio = FALSE
    /\ keyCheck = "done"
    /\ keyDialog = FALSE
    /\ apiKeySet = TRUE
    /\ actorFile \in Files \cup {NoFile}
    /\ refFile = NoFile
    /\ isProcessing = FALSE
    /\ isAnalyzing = FALSE
    /\ isRefining = FALSE
    /\ analysisText = Null
    /\ generatedImage = Null
    /\ refinePrompt = ""
    /\ steps = InitialSteps
    /\ gens = <<>>
    /\ refs = <<>>
    /\ analyses = <<>>
    /\ last = Other
    /\ OutputAtRest
    /\ ChatAtRest
    /\ poster = NoPoster

NextAnalyze ==
    \/ \E f \in Files : UploadReferenceUpTo(f, MaxRacing)
    \/ \E i \in 1..MaxRacing, ans \in UNION {AnalysisAnswers(f) : f \in Files} :
           AnalysisAnswer(i, ans)

SpecAnalyze == InitAnalyze /\ [][NextAnalyze]_vars

\* What the environment owes an invocation in flight: timers fire, file
\* reads settle, backend calls and key dialogs return or fail.
GenerateProgress ==
    \/ \E i \in 1..MaxInFlight : GenerateTimer1(i)
    \/ \E i \in 1..MaxInFlight : GenerateTimer2(i)
    \/ \E i \in 1..MaxInFlight, readOk \in BOOLEAN : GenerateFilesRead(i, readOk)
    \/ \E i \in 1..MaxInFlight, resp \in Responses : GenerateAnswer(i, resp)
    \/ \E i \in 1..MaxInFlight, resolved \in BOOLEAN, key \in Keys :
           GenerateKeyDialog(i, resolved, key)

RefineProgress == \E i \in 1..MaxInFlight, resp \in Responses : RefineAnswer(i, resp)

\* The App with every dispatched operation eventually answered.
SpecLive == Spec /\ WF_vars(GenerateProgress) /\ WF_vars(RefineProgress)

(***************************************************************************)
(* generateFinalPoster called on its own: every combination of arguments,  *)
(* under either build and with or without a key.  The "swap" build takes   *)
(* both files and no creative prompt.                                      *)
(***************************************************************************)
PosterPrompts == {"", "A neon city at night"}

PosterFiles == 0..MaxPosterFile

PosterCalls(bld) ==
    IF bld = "scenario"
    THEN {NewCall(a, r, p) : a \in PosterFiles \cup {NoFile},
                             r \in PosterFiles \cup {NoFile}, p \in PosterPrompts}
    ELSE {NewCall(a, r, "") : a \in PosterFiles, r \in PosterFiles}

InitPoster ==
    /\ build \in Builds
    /\ envKey \in EnvKeys
    /\ poster \in PosterCalls(build)
    /\ aiStudio = FALSE
    /\ keyCheck = "done"
    /\ keyDialog = FALSE
    /\ apiKeySet = FALSE
    /\ actorFile = NoFile
    /\ refFile = NoFile
    /\ isProcessing = FALSE
    /\ isAnalyzing = FALSE
    /\ isRefining = FALSE
    /\ analysisText = Null
    /\ generatedImage = Null
    /\ refinePrompt = ""
    /\ steps = InitialSteps
    /\ gens = <<>>
    /\ refs = <<>>
    /\ analyses = <<>>
    /\ last = Other
    /\ OutputAtRest
    /\ ChatAtRest

appVars == <<build, envKey, aiStudio, keyCheck, keyDialog, apiKeySet, actorFile, refFile,
             isProcessing, isAnalyzing, isRefining, analysisText, generatedImage,
             refinePrompt, steps, gens, refs, analyses, last, outVars, chatVars>>

PosterStart ==
    /\ poster.pc = "start"
    /\ poster' = PosterBegin(poster, envKey)
    /\ UNCHANGED appVars

PosterFilesRead(readOk) ==
    /\ poster.pc = "read"
    /\ poster' = PosterAfterRead(poster, build, readOk)
    /\ UNCHANGED appVars

PosterAnswer(resp) ==
    /\ poster.pc = "call"
    /\ poster' = PosterAfterResponse(poster, resp)
    /\ UNCHANGED appVars

(***************************************************************************)
(* refinePoster called on its own, on every artifact, prompt and output    *)
(* type, under either build and with or without a key.                     *)
(***************************************************************************)
RefineCalls ==
    {RefineCall(DataUriPrefix \o d, p, o) :
        d \in ImageData, p \in RefinePrompts \ {""},
        o \in OutputTypes \cup {OtherOutputType}}

InitRefine ==
    /\ build \in Builds
    /\ envKey \in EnvKeys
    /\ poster \in RefineCalls
    /\ aiStudio = FALSE
    /\ keyCheck = "done"
    /\ keyDialog = FALSE
    /\ apiKeySet = FALSE
    /\ actorFile = NoFile
    /\ refFile = NoFile
    /\ isProcessing = FALSE
    /\ isAnalyzing = FALSE
    /\ isRefining = FALSE
    /\ analysisText = Null
    /\ generatedImage = Null
    /\ refinePrompt = ""
    /\ steps = InitialSteps
    /\ gens = <<>>
    /\ refs = <<>>
    /\ analyses = <<>>
    /\ last = Other
    /\ OutputAtRest
    /\ ChatAtRest

RefineStart ==
    /\ poster.pc = "start"
    /\ poster' = RefineBegin(poster, build, envKey)
    /\ UNCHANGED appVars

RefineAnswered(resp) ==
    /\ poster.pc = "call"
    /\ poster' = RefineAfterResponse(poster, build, resp)
    /\ UNCHANGED appVars

NextRefine ==
    \/ RefineStart
    \/ \E resp \in Responses : RefineAnswered(resp)

SpecRefine == InitRefine /\ [][NextRefine]_vars

NextPoster ==
    \/ PosterStart
    \/ \E readOk \in BOOLEAN : PosterFilesRead(readOk)
    \/ \E resp \in Responses : PosterAnswer(resp)

SpecPoster == InitPoster /\ [][NextPoster]_vars

(***************************************************************************)
(* generateFinalPoster composing its request, for every setting of the     *)
(* output controls: output type, landing position, analysis context, text  *)
(* mode and custom text, in each scenario and under either build.          *)
(***************************************************************************)
CustomTexts == {"", "  ", "Sale Now"}

ComposeCalls(bld) ==
    {PosterCall(a, r, o, l, n, pt, ct, IF bld = "scenario" THEN "A neon city at night" ELSE "") :
        a \in IF bld = "scenario" THEN {NoFile, 1} ELSE {1},
        r \in IF bld = "scenario" THEN {NoFile, 1} ELSE {1},
        o \in OutputTypes \cup {OtherOutputType},
        l \in LandingPositions \cup {OtherLandingPosition},
        n \in {Null, NotesOf(1)},
        pt \in BOOLEAN,
        ct \in CustomTexts}

InitCompose ==
    /\ build \in Builds
    /\ envKey \in Keys
    /\ poster \in ComposeCalls(build)
    /\ aiStudio = FALSE
    /\ keyCheck = "done"
    /\ keyDialog = FALSE
    /\ apiKeySet = FALSE
    /\ actorFile = NoFile
    /\ refFile = NoFile
    /\ isProcessing = FALSE
    /\ isAnalyzing = FALSE
    /\ isRefining = FALSE
    /\ analysisText = Null
    /\ generatedImage = Null
    /\ refinePrompt = ""
    /\ steps = InitialSteps
    /\ gens = <<>>
    /\ refs = <<>>
    /\ analyses = <<>>
    /\ last = Other
    /\ OutputAtRest
    /\ ChatAtRest

NextCompose ==
    \/ PosterStart
    \/ \E readOk \in BOOLEAN : PosterFilesRead(readOk)

SpecCompose == InitCompose /\ [][NextCompose]_vars

(***************************************************************************)
(* Claims about the pipeline.                                              *)
(***************************************************************************)
MonotoneIn(s) ==
    \A i \in Stages :
        s[i].status = "processing" => \A j \in 1..(i - 1) : s[j].status = "completed"

\* C1: in every reachable state, and in every value the stage list passes
\* through inside a handler, no stage is 'processing' while an earlier stage
\* is not 'completed'.
PipelineMonotone ==
    /\ MonotoneIn(steps)
    /\ \A k \in 1..Len(last.log) : MonotoneIn(last.log[k])

\* A refinement is running with stage 5 'processing' on top of four
\* completed stages.
PipelineMonotoneWitness ==
    /\ Len(refs) = 1
    /\ steps[5].status = "processing"
    /\ \A j \in 1..4 : steps[j].status = "completed"

Terminal(st) == st.status \in {"completed", "error"}

GenerationStarts == Len(gens') > Len(gens)

\* The block is handleRefine's first one (the click), with or without key.
RefineStarts == last'.op \in {"refine", "refine_failed"} /\ Len(refs') >= Len(refs)

\* C2 as stated: a stage that is 'completed' or 'error' changes status only
\* when a new top-level generation starts.
StagesTerminal ==
    [][\A i \in Stages :
          Terminal(steps[i]) /\ steps'[i].status # steps[i].status => GenerationStarts]_vars

\* C2 amended: a stage that is 'completed' or 'error' changes status only
\* when a new top-level generation starts, except stage 5, which handleRefine
\* takes back to 'processing' (and on to 'completed' or 'error').
StagesTerminalButRefine ==
    [][\A i \in Stages :
          Terminal(steps[i]) /\ steps'[i].status # steps[i].status
              => GenerationStarts \/ (i = 5 /\ RefineStarts)]_vars

\* handleRefine has just re-entered stage 5, which a failed refinement had
\* left in 'error'.
StagesTerminalWitness ==
    /\ last.op = "refine"
    /\ last.log[1][5].status = "error"
    /\ steps[5].status = "processing"

\* The status changes (stage, from, to) made by the latest block, updater by
\* updater.
Changes ==
    {<<i, last.log[k][i].status, last.log[k + 1][i].status>> :
        i \in Stages, k \in 1..(Len(last.log) - 1)}
    \ {<<i, st, st>> : i \in Stages, st \in {"pending", "processing", "completed", "error"}}

\* C3 as stated: a stage enters 'processing' only from 'pending', and
\* 'completed' or 'error' only from 'processing'.
TransitionsFollowRelation ==
    \A c \in Changes :
        /\ c[3] = "processing" => c[2] = "pending"
        /\ c[3] \in {"completed", "error"} => c[2] = "processing"

\* C3 amended: stages 2 to 5 enter 'processing' only from 'pending' and
\* 'completed' or 'error' only from 'processing', with two exceptions: stage 1
\* goes from 'pending' directly to 'completed' (handleAnalyze, and the step 1
\* check of handleGenerate), and handleRefine takes stage 5 to 'processing'
\* from 'completed' or 'error'.
TransitionsFollowRelationButStage1AndRefine ==
    \A c \in Changes :
        /\ c[3] = "processing" =>
              \/ c[2] = "pending"
              \/ c[1] = 5 /\ c[2] \in {"completed", "error"}
                          /\ last.op \in {"refine", "refine_failed"}
        /\ c[3] \in {"completed", "error"} =>
              \/ c[2] = "processing"
              \/ c[1] = 1 /\ c[2] = "pending" /\ c[3] = "completed"

\* A refinement has just taken stage 5 from 'completed' to 'processing'.
TransitionsWitness ==
    /\ last.op = "refine"
    /\ <<5, "completed", "processing">> \in Changes

\* C4: right after the reset of a starting generation, stages 2 to 5 are
\* 'pending' without details; stage 1 is too, unless an analysis result
\* exists, and then stage 1 is as it was before, and 'completed'.
GenerateResetsStages ==
    last.op = "generate" =>
        /\ \A i \in 2..5 : last.log[2][i] = Stage("pending", Null)
        /\ IF Truthy(analysisText)
           THEN last.log[2][1] = last.log[1][1] /\ last.log[2][1].status = "completed"
           ELSE last.log[2][1] = Stage("pending", Null)

\* A re-generation has just started after a finished one, with an analysis
\* result at hand.
GenerateResetsWitness ==
    /\ last.op = "generate"
    /\ Truthy(analysisText)
    /\ last.log[1][5].status = "completed"

RefineOps == {"refine", "refine_done", "refine_failed"}

AtMostOneInFlight == Len(gens) <= 1 /\ Len(refs) <= 1

\* A generation is in flight, with both files still chosen and a key set:
\* only the disabled button keeps a second one from starting.
AtMostOneInFlightWitness ==
    /\ Len(gens) = 1
    /\ GenerateGuard /\ MainScreen

\* C7: after a failed refinement the artifact is the one the refinement
\* started from, and stage 5 is 'error'.
FailedRefineKeepsArtifact ==
    last.op = "refine_failed" =>
        /\ generatedImage = last.before
        /\ Truthy(generatedImage)
        /\ steps[5].status = "error"

\* The backend has just failed a refinement that had been sent to it.
FailedRefineWitness ==
    /\ last.op = "refine_failed"
    /\ last.sent
    /\ Truthy(last.before)

\* The generation failed with a refusal: its message is the prefix followed
\* by the backend's text.
IsRefusal(msg) ==
    msg # Null /\ Len(msg) >= Len(RefusalPrefix)
    /\ SubSeq(msg, 1, Len(RefusalPrefix)) = RefusalPrefix

\* C8 as stated: when the backend answers a generation with only a text, the
\* generation fails with a refusal carrying that text, and the artifact is
\* the one that existed before the generation started.
RefusalKeepsArtifact ==
    (last.op \in {"generate_failed", "generate_reprompt"} /\ IsRefusal(last.err)) =>
        /\ \E t \in BackendTexts : last.err = RefusalPrefix \o t
        /\ generatedImage = last.before

\* C10: a generation request goes out only from an invocation whose
\* getAiClient returned a client, in a state where a key is configured; an
\* invocation that fails with the missing-key error has issued no request,
\* and without a key generateFinalPoster does not get past its first line.
CredentialBeforeTraffic ==
    /\ \A i \in 1..Len(gens) : gens[i].call.sent => gens[i].call.ai
    /\ last.op \in {"generate_t2", "generate_send"} => Truthy(envKey)
    /\ (last.op = "generate_failed" /\ last.err = MissingKeyMsg) =>
           ~last.sent /\ steps[5].status = "error"

\* A generation has just failed for want of a key, before any request.
CredentialWitness ==
    /\ last.op = "generate_failed"
    /\ last.err = MissingKeyMsg
    /\ ~Truthy(envKey)

\* The scenario the presence of the three inputs calls for.
ScenarioByPresence(subject, reference, brief) ==
    IF subject /\ reference THEN "IdentityTransfer"
    ELSE IF subject THEN "GenerativePlacement"
    ELSE IF reference THEN "GuidedReimagination"
    ELSE IF brief THEN "PureSynthesis"
    ELSE "Invalid"

\* C9 as stated: once the files are read, generateFinalPoster ("scenario"
\* build) has selected the scenario its three presence flags call for; only
\* the all-absent combination fails with the invalid-input error, and that
\* one has issued no backend call.
ScenarioFollowsPresence ==
    (build = "scenario" /\ poster.scenario # "none") =>
        /\ poster.scenario = ScenarioByPresence(poster.actorFile # NoFile,
                                                poster.referenceFile # NoFile,
                                                poster.creativePrompt # "")
        /\ poster.scenario = "Invalid" =>
               ~poster.sent /\ poster.pc = "done" /\ poster.result = Err(InvalidInputMsg)
        /\ poster.scenario # "Invalid" => poster.sent

(***************************************************************************)
(* Claims about failures and retries.                                      *)
(***************************************************************************)
\* The failure message of a lost credential.
CredentialFailure(msg) == msg # Null /\ Includes(msg, "Requested entity was not found")

\* C11 as stated: a credential failure of a generation is followed by one
\* re-prompt, and once the re-prompt has resolved the generation is running
\* again from the beginning.
CredentialFailureRetries ==
    /\ (last.op = "generate_failed" /\ aiStudio) => ~CredentialFailure(last.err)
    /\ (last.op = "generate_prompted" /\ steps[5].details = KeyRefreshedMsg) =>
           /\ Len(gens) = 1 /\ isProcessing
           /\ \A i \in 2..5 : steps[i].status \in {"pending", "processing"}

\* C11 amended: a generation failure whose message contains 'Requested
\* entity was not found' opens the key dialog exactly once when the host
\* offers one (and never otherwise); when the dialog has settled the
\* invocation ends without a retry: the stages are not reset, nothing is in
\* flight, and a resolved dialog leaves stage 5 in 'error' asking the user
\* to click Generate again.
CredentialFailureRepromptsOnce ==
    /\ (last.op = "generate_failed" /\ aiStudio) => ~CredentialFailure(last.err)
    /\ last.op = "generate_reprompt" =>
           /\ CredentialFailure(last.err) /\ aiStudio /\ last.sent
           /\ ~apiKeySet /\ isProcessing
           /\ Len(gens) = 1 /\ gens[1].pc = "prompt"
    /\ last.op = "generate_prompted" =>
           /\ CredentialFailure(last.err)
           /\ gens = <<>> /\ refs = <<>> /\ ~isProcessing
           /\ \A i \in 1..4 : steps[i] = last.log[1][i] /\ steps[i].status = "completed"
           /\ steps[5] \in {Stage("error", KeyRefreshedMsg), last.log[1][5]}

\* The key dialog opened by the catch has resolved.
CredentialFailureWitness ==
    /\ last.op = "generate_prompted"
    /\ steps[5] = Stage("error", KeyRefreshedMsg)
    /\ apiKeySet

FailureOps == {"generate_failed", "refine_failed"}

\* A step in which a request goes out to the generation backend.
RequestIssued ==
    \/ \E i \in 1..Len(gens') :
           gens'[i].call.sent /\ i <= Len(gens) /\ ~gens[i].call.sent
    \/ Len(refs') > Len(refs)

\* C12: after a failed generation or refinement (other than the lost
\* credential with a key dialog) the invocation has ended and nothing is in
\* flight that could issue a request; and a request that follows a failure
\* is issued by a user trigger (a new handleRefine) or by a generation a
\* user trigger started after the failure.
NoAutomaticRetry ==
    /\ [](last.op \in FailureOps =>
            gens = <<>> /\ refs = <<>> /\ ~isProcessing /\ ~isRefining
            /\ steps[5].status = "error")
    /\ [][RequestIssued => (last.op \notin FailureOps \/ last'.op = "refine")]_vars

\* The backend has answered a generation without an image, after its one
\* request.
NoAutomaticRetryWitness ==
    /\ last.op = "generate_failed"
    /\ last.sent
    /\ last.err = NoImageMsg

(***************************************************************************)
(* Claims about the generation service.                                    *)
(***************************************************************************)
\* generateFinalPoster has received the backend's response.
Answered == poster.pc = "done" /\ poster.sent /\ ~poster.response.rejected

\* The parts of the first candidate of the response received.
AnsweredParts ==
    LET cs == poster.response.candidates
    IN IF cs # <<>> /\ cs[1].hasParts THEN cs[1].parts ELSE <<>>

\* C13: the result of generateFinalPoster on a response: with an image part,
\* the artifact of the first image part in part order; otherwise with a text
\* part, the refusal carrying the first text; otherwise (no image and no
\* text, no parts, or no candidate) the no-image error.
ResponseClassified ==
    Answered =>
        LET ps == AnsweredParts
            images == {i \in 1..Len(ps) : ps[i].data # ""}
            texts == {i \in 1..Len(ps) : ps[i].text # ""}
        IN IF images # {}
           THEN /\ poster.result.ok
                /\ \E i \in images :
                       /\ \A j \in images : i <= j
                       /\ poster.result.value = "data:image/png;base64," \o ps[i].data
           ELSE IF texts # {}
           THEN /\ ~poster.result.ok
                /\ \E i \in texts :
                       /\ \A j \in texts : i <= j
                       /\ poster.result.value = "Model Refusal: " \o ps[i].text
           ELSE poster.result = Err("No image data returned.")

\* The response held two different image parts; the first one made the
\* artifact.
ResponseClassifiedWitness ==
    /\ Answered
    /\ Len(AnsweredParts) = 2
    /\ AnsweredParts[1].data # "" /\ AnsweredParts[2].data # ""
    /\ AnsweredParts[1].data # AnsweredParts[2].data
    /\ poster.result.ok

\* refinePoster has settled.
RefineSettled == poster.pc = "done"

\* The parts of the first candidate of the response refinePoster received.
RefineParts ==
    LET cs == poster.response.candidates
    IN IF poster.sent /\ ~poster.response.rejected /\ cs # <<>> /\ cs[1].hasParts
       THEN cs[1].parts ELSE <<>>

\* C14 as stated: refinePoster never fails with the missing-key error; a
\* response with a text part and no image part fails with the refusal
\* carrying that text; a response with neither fails with the no-image
\* (empty response) error; a transport failure passes its message through.
RefineFailureModes ==
    RefineSettled =>
        /\ poster.result # Err(MissingKeyMsg)
        /\ (poster.sent /\ poster.response.rejected /\ poster.response.message # "") =>
               poster.result = Err(poster.response.message)
        /\ (poster.sent /\ ~poster.response.rejected
            /\ \A i \in 1..Len(RefineParts) : RefineParts[i].data = "") =>
               IF \E i \in 1..Len(RefineParts) : RefineParts[i].text # ""
               THEN \E i \in 1..Len(RefineParts) :
                        /\ RefineParts[i].text # ""
                        /\ poster.result = Err("Model Refusal: " \o RefineParts[i].text)
               ELSE ~poster.result.ok /\ ~IsRefusal(poster.result.value)

\* C20: the aspect ratio of the refinement request is 9:16 for ad_stories
\* and landing_mobile, 16:9 for thumbnail and landing_hero, and 1:1 for
\* every other output type, whatever the artifact and the prompt (there is
\* no landing position among the arguments); the ratio is also the one the
\* last line of the instruction names.
RefineAspectByOutputType ==
    (poster.pc \in {"call", "done"} /\ poster.sent) =>
        /\ poster.outputType \in {"ad_stories", "landing_mobile"} =>
               poster.aspectRatio = "9:16"
        /\ poster.outputType \in {"thumbnail", "landing_hero"} =>
               poster.aspectRatio = "16:9"
        /\ poster.outputType \notin
               {"ad_stories", "landing_mobile", "thumbnail", "landing_hero"} =>
               poster.aspectRatio = "1:1"
        /\ poster.parts[2].text[Len(poster.parts[2].text)] =
               "Output Ratio: " \o poster.aspectRatio \o "."

\* A mobile landing page is being refined.
RefineAspectWitness ==
    /\ poster.pc = "call"
    /\ poster.outputType = "landing_mobile"
    /\ poster.aspectRatio = "9:16"

\* A generation has just failed with a refusal.
RefusedGeneration == last.op = "generate_failed" /\ IsRefusal(last.err)

InstructionOf(parts) == parts[Len(parts)].text

\* C16 as stated: a generation started after the analysis backend failed
\* reaches the backend, and the instruction it sends has no analysis line.
FailedAnalysisLeavesNoContext ==
    \A i \in 1..Len(gens) :
        (gens[i].analysisText = AnalysisUnavailable /\ gens[i].call.sent) =>
            \A k \in 1..Len(InstructionOf(gens[i].call.parts)) :
                ~Includes(InstructionOf(gens[i].call.parts)[k], "TECH SPECS")

\* C17: the parts of the request are the media parts of the scenario, in
\* its order, followed by the instruction: one text part, the last one.
\* Identity Transfer: reference, then subject; Generative Placement: the
\* subject; Guided Reimagination: the reference; Pure Synthesis: none.
PayloadByScenario ==
    poster.sent =>
        LET parts == poster.parts
            n == Len(parts)
            media(k, f) ==
                /\ parts[k].text = <<>>
                /\ parts[k].data = "aW1n" \o ToString(f)
                   \/ (f = 0 /\ parts[k].data = "")
        IN /\ n >= 1
           /\ parts[n].text # <<>> /\ parts[n].data = Null
           /\ \A k \in 1..(n - 1) : parts[k].text = <<>> /\ parts[k].data # Null
           /\ poster.scenario = "IdentityTransfer" =>
                  n = 3 /\ media(1, poster.referenceFile) /\ media(2, poster.actorFile)
           /\ poster.scenario = "GenerativePlacement" =>
                  n = 2 /\ media(1, poster.actorFile)
           /\ poster.scenario = "GuidedReimagination" =>
                  n = 2 /\ media(1, poster.referenceFile)
           /\ poster.scenario = "PureSynthesis" => n = 1

\* An identity transfer of two different images has been sent by the
\* four-scenario build.
PayloadByScenarioWitness ==
    /\ build = "scenario"
    /\ poster.sent
    /\ poster.scenario = "IdentityTransfer"
    /\ poster.actorFile = 1 /\ poster.referenceFile = 2

\* The lines of the instruction that give the text overlay instruction.
TextLines ==
    {l \in {InstructionOf(poster.parts)[k] : k \in 1..Len(InstructionOf(poster.parts))} :
        Includes(l, "TEXT:") \/ Includes(l, "TEXT RENDER:")}

\* C18 as stated: the request carries one text overlay instruction: the
\* clean-plate one when preserveText is false, whatever customText is; the
\* custom one with the literal customText when preserveText is true and
\* customText is not blank; the mockup one when preserveText is true and
\* customText is empty or blank.
TextOverlayPolicy ==
    poster.sent =>
        /\ Cardinality(TextLines) = 1
        /\ \A l \in TextLines :
               IF ~poster.preserveText
               THEN Includes(l, "Clean") /\ ~Includes(l, "\"")
               ELSE IF Len(Trim(poster.customText)) > 0
               THEN Includes(l, "\"" \o poster.customText \o "\"")
               ELSE Includes(l, "mockup") /\ ~Includes(l, "\"")

\* The third line of every instruction: the format instruction.
FormatLine == InstructionOf(poster.parts)[3]

\* C19: the format of the request is a function of output type and landing
\* position: 9:16 for ad_stories and landing_mobile, 16:9 for thumbnail and
\* landing_hero, 1:1 with the square instruction for ad_feed and for any
\* unrecognized output type (which is sent like any other); landing_hero
\* anchors the subject LEFT with the right side free for 'left', RIGHT with
\* the left side free for 'right', and centers it for any other position.
FormatResolved ==
    poster.pc = "call" =>
        /\ poster.sent
        /\ poster.aspectRatio =
               CASE poster.outputType \in {"ad_stories", "landing_mobile"} -> "9:16"
                 [] poster.outputType \in {"thumbnail", "landing_hero"} -> "16:9"
                 [] OTHER -> "1:1"
        /\ poster.outputType \notin
               {"ad_stories", "landing_mobile", "thumbnail", "landing_hero"} =>
               FormatLine = "FORMAT: SQUARE AD (1:1)."
        /\ poster.outputType = "landing_hero" =>
               /\ Includes(FormatLine, "(16:9)")
               /\ IF poster.landingPosition = "left"
                  THEN /\ Includes(FormatLine, "Subject Anchored LEFT. Right side:")
                       /\ ~Includes(FormatLine, "RIGHT")
                  ELSE IF poster.landingPosition = "right"
                  THEN /\ Includes(FormatLine, "Subject Anchored RIGHT. Left side:")
                       /\ ~Includes(FormatLine, "LEFT")
                  ELSE /\ Includes(FormatLine, "Center Composition")
                       /\ ~Includes(FormatLine, "Anchored")
        /\ poster.outputType = "ad_stories" => Includes(FormatLine, "(9:16)")
        /\ poster.outputType = "thumbnail" => Includes(FormatLine, "(16:9)")
        /\ poster.outputType = "landing_mobile" => Includes(FormatLine, "9:16)")

\* A web header anchored left has been composed by the four-scenario build.
FormatResolvedWitness ==
    /\ build = "scenario"
    /\ poster.pc = "call"
    /\ poster.outputType = "landing_hero"
    /\ poster.landingPosition = "left"
    /\ poster.aspectRatio = "16:9"

\* The lines of the instruction that contain sub.
LinesWith(sub) ==
    {k \in 1..Len(InstructionOf(poster.parts)) :
        Includes(InstructionOf(poster.parts)[k], sub)}

\* C21 as stated: in every scenario the instruction is, in this order: role
\* framing, task framing, format instruction, input legend, the analysis
\* context whenever one is given, the brief whenever it is not empty, the
\* numbered directives, the text overlay instruction and the output-quality
\* directive; every segment but the two optional ones is present.
InstructionSegmentsInOrder ==
    poster.sent =>
        LET L == InstructionOf(poster.parts)
            quality == LinesWith("4K") \cup LinesWith("8k")
            text == LinesWith("TEXT:") \cup LinesWith("TEXT RENDER:")
        IN /\ Includes(L[1], "ROLE:")
           /\ Includes(L[2], "TASK:")
           /\ L[3] = FormatOf(build, poster.outputType, poster.landingPosition).instruction
           /\ \E g \in LinesWith("INPUTS:"), d \in LinesWith("1. "), t \in text, q \in quality :
                  /\ 3 < g /\ g < d /\ d < t /\ t < q
                  /\ Truthy(poster.analysisContext) =>
                         \E a \in LinesWith(poster.analysisContext) : g < a /\ a < d
                  /\ Truthy(poster.creativePrompt) =>
                         \E b \in LinesWith(poster.creativePrompt) : g < b /\ b < d
           /\ ~Truthy(poster.analysisContext) => LinesWith("TECH SPECS") = {}

\* C25 as stated: whenever no generation and no refinement is in flight
\* (isProcessing and isRefining are both false), no stage is 'processing', on
\* every exit path of handleGenerate, the one where openSelectKey fails
\* included.
NoStageStuck ==
    (~isProcessing /\ ~isRefining) => \A i \in Stages : steps[i].status # "processing"

GenerateEnds == {"generate_done", "generate_failed", "generate_prompted"}

RefineEnds == {"refine_done", "refine_failed"}

\* C23 as stated: with every backend call and key dialog eventually
\* answered, every generation in flight eventually ends, and ends with
\* isProcessing false and stage 5 'completed' or 'error'; every refinement in
\* flight eventually ends, and ends with isRefining false and stage 5
\* 'completed' or 'error'.
RunsToCompletion ==
    /\ (gens # <<>>) ~> (gens = <<>>)
    /\ (refs # <<>>) ~> (refs = <<>>)
    /\ [](last.op \in GenerateEnds => ~isProcessing /\ Terminal(steps[5]))
    /\ [](last.op \in RefineEnds => ~isRefining /\ Terminal(steps[5]))

\* C26: right after a successful generation all five stages are 'completed'
\* and generatedImage is the image the backend returned; and whenever
\* generatedImage is set and no generation is in flight, stages 1 to 4 are
\* 'completed'.
ArtifactStageConsistency ==
    /\ last.op = "generate_done" =>
           /\ \A i \in Stages : steps[i].status = "completed"
           /\ Truthy(generatedImage)
           /\ \E d \in ImageData : generatedImage = DataUriPrefix \o d
    /\ (Truthy(generatedImage) /\ ~isProcessing /\ gens = <<>>) =>
           \A i \in 1..4 : steps[i].status = "completed"

\* A generation has succeeded after an analysis, and a refinement of its
\* artifact is in flight.
ArtifactStageWitness ==
    /\ Truthy(generatedImage)
    /\ Truthy(analysisText)
    /\ refs # <<>>
    /\ gens = <<>>

\* C27 as stated: with a reference uploaded while the analysis of an earlier
\* one is in flight, isAnalyzing stays true until the last analysis in
\* flight has finished, and the analysisText stored once all have finished
\* is the outcome of the analysis of the reference uploaded last, in
\* whichever order the analyses complete.
AnalysisOfLatestReference ==
    /\ analyses # <<>> => isAnalyzing
    /\ (analyses = <<>> /\ refFile # NoFile) =>
           analysisText \in {AnalyzeOutcome(ans) : ans \in AnalysisAnswers(refFile)}

\* The number of files a call was given.
FilesGiven(c) ==
    (IF c.actorFile # NoFile THEN 1 ELSE 0) + (IF c.referenceFile # NoFile THEN 1 ELSE 0)

\* C28 as stated: generateFinalPoster ("scenario" build) fails with the
\* invalid-input error only when subject, reference and brief are all absent;
\* a call whose files were read, one of them to an empty encoding, is sent
\* under the scenario of its presence flags with every given file as a media
\* part.
EmptyEncodingStillRouted ==
    build = "scenario" =>
        /\ poster.result = Err(InvalidInputMsg) =>
               /\ poster.actorFile = NoFile
               /\ poster.referenceFile = NoFile
               /\ poster.creativePrompt = ""
        /\ (poster.scenario # "none" /\ 0 \in {poster.actorFile, poster.referenceFile}) =>
               /\ poster.sent
               /\ poster.scenario = ScenarioByPresence(poster.actorFile # NoFile,
                                                       poster.referenceFile # NoFile,
                                                       poster.creativePrompt # "")
               /\ Len(poster.parts) = FilesGiven(poster) + 1

\* C29: the aspect ratio refinePoster asks for is the one generateFinalPoster
\* of the same build uses for the same output type, whatever the landing
\* position the artifact was generated with: for the five output types and
\* for an unrecognized one.
RefineKeepsAspectRatio ==
    (poster.pc \in {"call", "done"} /\ poster.sent) =>
        \A l \in LandingPositions \cup {OtherLandingPosition} :
            poster.aspectRatio = FormatOf(build, poster.outputType, l).aspectRatio

\* A web header is being refined at the ratio it was generated with.
RefineKeepsAspectWitness ==
    /\ poster.pc = "call"
    /\ poster.outputType = "landing_hero"
    /\ poster.aspectRatio = "16:9"
    /\ FormatOf(build, "landing_hero", "left").aspectRatio = "16:9"

(***************************************************************************)
(* Claims about the output controls.                                       *)
(***************************************************************************)
\* The positions an output type admits.
ValidOutput(type, pos) ==
    /\ type = "landing_hero" => pos \in {"left", "center", "right"}
    /\ type = "landing_mobile" => pos \in {"top", "bottom"}

\* C22: after any sequence of format, device and position selections, once
\* the effect has settled the output type and position are valid together
\* (left, center or right for landing_hero; top or bottom for
\* landing_mobile), and so are the two every dispatched generation carries.
OutputSpecValid ==
    /\ ~syncDue => ValidOutput(outputType, landingPos)
    /\ \A i \in 1..Len(gens) : ValidOutput(gens[i].outputType, gens[i].landingPos)

\* A mobile landing page, image at the bottom, has been dispatched.
OutputSpecWitness ==
    /\ gens # <<>>
    /\ gens[1].outputType = "landing_mobile"
    /\ gens[1].landingPos = "bottom"
    /\ gens[1].call.sent

\* C30: from every combination of output type, device and position, and
\* after every selection, the effect stops re-running after finitely many
\* runs; a re-run changes nothing the first run had set; where it stops,
\* landing_hero goes with desktop and landing_mobile with mobile; and the
\* effect never changes an output type that is not a landing type.
SyncReachesFixedPoint ==
    /\ syncDue ~> ~syncDue
    /\ [](syncRuns < MaxSyncRuns)
    /\ [](~syncDue => /\ outputType = "landing_hero" => landingDevice = "desktop"
                      /\ outputType = "landing_mobile" => landingDevice = "mobile")
    /\ [][syncRuns' > syncRuns =>
              /\ outputType \notin LandingTypes => outputType' = outputType
              /\ syncRuns >= 1 => outputType' = outputType /\ landingPos' = landingPos]_vars

\* The effect has settled in two runs on a mobile landing page, the position
\* moved to the top.
SyncFixedPointWitness ==
    /\ ~syncDue
    /\ syncRuns = 2
    /\ outputType = "landing_mobile"
    /\ landingDevice = "mobile"
    /\ landingPos = "top"

(***************************************************************************)
(* Claims about ChatAssistant.                                             *)
(***************************************************************************)
\* C24: at most one send is in flight; the history is the welcome entry
\* followed by user and model entries in turn, the last entry being the user
\* message of the send in flight when there is one; a step that changes the
\* history keeps every earlier entry and appends the accepted user message
\* (when a send starts), or the model entry for the reply or the error
\* notice (when a send ends), or both (a send that fails at once).
ChatHistoryInOrder ==
    /\ [](Len(sends) <= 1)
    /\ [](\A k \in 1..Len(messages) :
              messages[k].role = IF k % 2 = 1 THEN "model" ELSE "user")
    /\ [](IF sends = <<>> THEN Len(messages) % 2 = 1 /\ ~isLoading
          ELSE /\ isLoading
               /\ messages[Len(messages)] = Message("user", sends[1].message))
    /\ [][messages' # messages =>
              LET user == Message("user", input)
                  replies == {Message("model", ChatOutcome(r)) : r \in ChatReplies}
              IN /\ SubSeq(messages', 1, Len(messages)) = messages
                 /\ IF Len(sends') > Len(sends) THEN messages' = Append(messages, user)
                    ELSE IF Len(sends') < Len(sends)
                    THEN \E m \in replies : messages' = Append(messages, m)
                    ELSE messages' =
                             Append(Append(messages, user),
                                    Message("model", ChatErrorNotice))]_vars

\* Two exchanges have completed: one answered, one failed.
ChatHistoryWitness ==
    /\ Len(messages) = 5
    /\ sends = <<>>
    /\ messages[2].text = "How do I start?"
    /\ messages[3].text = "Upload two images."
    /\ messages[4].text = "Thanks"
    /\ messages[5].text = ChatErrorNotice

====
